--------------------------- MODULE Spec2Model ---------------------------
(***************************************************************************)
(* NutriPilot: the StudioOrchestrator's Observe-Think-Act pipeline         *)
(* (backend/app/core/orchestrator.py) with its three agents behind         *)
(* BaseAgent.execute, as a state machine.                                  *)
(*                                                                         *)
(* Conventions of the model                                                *)
(*  - confidences are hundredths (0.15 is 15, 0.87 is 87);                 *)
(*  - nutrient amounts and scores are whole numbers;                       *)
(*  - a Python str on which the code does substring work is a TLA+ string  *)
(*    whose characters are given by Chars;                                 *)
(*  - the emoji the code puts in front of an adjustment reason is left     *)
(*    out of the reason; the warning marker of a violation string is the   *)
(*    field "marker";                                                      *)
(*  - Optional fields: None is the number None for overall_score and       *)
(*    processing_time_ms, the string "None" for strings and the record     *)
(*    NoneRec for objects.                                                 *)
(***************************************************************************)
EXTENDS Integers, Sequences, FiniteSets, TLC

(***************************************************************************)
(* Bounds of the model.                                                    *)
(***************************************************************************)
\* runs that may be in flight on one orchestrator instance at the same time
MaxConcurrent == 2
\* the values a run's elapsed time may take are 0..MaxElapsedMs
MaxElapsedMs == 1

Runs == 1..MaxConcurrent

(***************************************************************************)
(* Python values.                                                          *)
(***************************************************************************)
None == -1
NoneRec == [kind |-> "None"]

Min(S) == CHOOSE x \in S : \A y \in S : x <= y
Max(S) == CHOOSE x \in S : \A y \in S : x >= y

\* the characters of every string the model does substring work on
Chars ==
       ("grilled chicken breast" :> <<"g","r","i","l","l","e","d"," ","c","h","i","c","k","e","n"," ","b","r","e","a","s","t">>)
    @@ ("grilled chicken" :> <<"g","r","i","l","l","e","d"," ","c","h","i","c","k","e","n">>)
    @@ ("fried chicken" :> <<"f","r","i","e","d"," ","c","h","i","c","k","e","n">>)
    @@ ("chicken breast" :> <<"c","h","i","c","k","e","n"," ","b","r","e","a","s","t">>)
    @@ ("chicken wings" :> <<"c","h","i","c","k","e","n"," ","w","i","n","g","s">>)
    @@ ("chicken" :> <<"c","h","i","c","k","e","n">>)
    @@ ("salmon" :> <<"s","a","l","m","o","n">>)
    @@ ("grilled salmon" :> <<"g","r","i","l","l","e","d"," ","s","a","l","m","o","n">>)
    @@ ("tuna" :> <<"t","u","n","a">>)
    @@ ("shrimp" :> <<"s","h","r","i","m","p">>)
    @@ ("steak" :> <<"s","t","e","a","k">>)
    @@ ("beef" :> <<"b","e","e","f">>)
    @@ ("ground beef" :> <<"g","r","o","u","n","d"," ","b","e","e","f">>)
    @@ ("pork chop" :> <<"p","o","r","k"," ","c","h","o","p">>)
    @@ ("bacon" :> <<"b","a","c","o","n">>)
    @@ ("sausage" :> <<"s","a","u","s","a","g","e">>)
    @@ ("turkey" :> <<"t","u","r","k","e","y">>)
    @@ ("eggs" :> <<"e","g","g","s">>)
    @@ ("egg" :> <<"e","g","g">>)
    @@ ("scrambled eggs" :> <<"s","c","r","a","m","b","l","e","d"," ","e","g","g","s">>)
    @@ ("tofu" :> <<"t","o","f","u">>)
    @@ ("brown rice" :> <<"b","r","o","w","n"," ","r","i","c","e">>)
    @@ ("white rice" :> <<"w","h","i","t","e"," ","r","i","c","e">>)
    @@ ("rice" :> <<"r","i","c","e">>)
    @@ ("quinoa" :> <<"q","u","i","n","o","a">>)
    @@ ("pasta" :> <<"p","a","s","t","a">>)
    @@ ("spaghetti" :> <<"s","p","a","g","h","e","t","t","i">>)
    @@ ("bread" :> <<"b","r","e","a","d">>)
    @@ ("garlic bread" :> <<"g","a","r","l","i","c"," ","b","r","e","a","d">>)
    @@ ("toast" :> <<"t","o","a","s","t">>)
    @@ ("bagel" :> <<"b","a","g","e","l">>)
    @@ ("oatmeal" :> <<"o","a","t","m","e","a","l">>)
    @@ ("cereal" :> <<"c","e","r","e","a","l">>)
    @@ ("pepperoni pizza" :> <<"p","e","p","p","e","r","o","n","i"," ","p","i","z","z","a">>)
    @@ ("cheese pizza" :> <<"c","h","e","e","s","e"," ","p","i","z","z","a">>)
    @@ ("pizza" :> <<"p","i","z","z","a">>)
    @@ ("hamburger" :> <<"h","a","m","b","u","r","g","e","r">>)
    @@ ("cheeseburger" :> <<"c","h","e","e","s","e","b","u","r","g","e","r">>)
    @@ ("burger" :> <<"b","u","r","g","e","r">>)
    @@ ("hot dog" :> <<"h","o","t"," ","d","o","g">>)
    @@ ("french fries" :> <<"f","r","e","n","c","h"," ","f","r","i","e","s">>)
    @@ ("fries" :> <<"f","r","i","e","s">>)
    @@ ("nachos" :> <<"n","a","c","h","o","s">>)
    @@ ("tacos" :> <<"t","a","c","o","s">>)
    @@ ("burrito" :> <<"b","u","r","r","i","t","o">>)
    @@ ("broccoli" :> <<"b","r","o","c","c","o","l","i">>)
    @@ ("steamed broccoli" :> <<"s","t","e","a","m","e","d"," ","b","r","o","c","c","o","l","i">>)
    @@ ("roasted vegetables" :> <<"r","o","a","s","t","e","d"," ","v","e","g","e","t","a","b","l","e","s">>)
    @@ ("vegetables" :> <<"v","e","g","e","t","a","b","l","e","s">>)
    @@ ("spinach" :> <<"s","p","i","n","a","c","h">>)
    @@ ("salad" :> <<"s","a","l","a","d">>)
    @@ ("green salad" :> <<"g","r","e","e","n"," ","s","a","l","a","d">>)
    @@ ("caesar salad" :> <<"c","a","e","s","a","r"," ","s","a","l","a","d">>)
    @@ ("carrot" :> <<"c","a","r","r","o","t">>)
    @@ ("carrots" :> <<"c","a","r","r","o","t","s">>)
    @@ ("potato" :> <<"p","o","t","a","t","o">>)
    @@ ("baked potato" :> <<"b","a","k","e","d"," ","p","o","t","a","t","o">>)
    @@ ("mashed potatoes" :> <<"m","a","s","h","e","d"," ","p","o","t","a","t","o","e","s">>)
    @@ ("sweet potato" :> <<"s","w","e","e","t"," ","p","o","t","a","t","o">>)
    @@ ("corn" :> <<"c","o","r","n">>)
    @@ ("green beans" :> <<"g","r","e","e","n"," ","b","e","a","n","s">>)
    @@ ("asparagus" :> <<"a","s","p","a","r","a","g","u","s">>)
    @@ ("avocado" :> <<"a","v","o","c","a","d","o">>)
    @@ ("apple" :> <<"a","p","p","l","e">>)
    @@ ("banana" :> <<"b","a","n","a","n","a">>)
    @@ ("orange" :> <<"o","r","a","n","g","e">>)
    @@ ("strawberries" :> <<"s","t","r","a","w","b","e","r","r","i","e","s">>)
    @@ ("blueberries" :> <<"b","l","u","e","b","e","r","r","i","e","s">>)
    @@ ("grapes" :> <<"g","r","a","p","e","s">>)
    @@ ("watermelon" :> <<"w","a","t","e","r","m","e","l","o","n">>)
    @@ ("mango" :> <<"m","a","n","g","o">>)
    @@ ("cheese" :> <<"c","h","e","e","s","e">>)
    @@ ("yogurt" :> <<"y","o","g","u","r","t">>)
    @@ ("greek yogurt" :> <<"g","r","e","e","k"," ","y","o","g","u","r","t">>)
    @@ ("milk" :> <<"m","i","l","k">>)
    @@ ("cottage cheese" :> <<"c","o","t","t","a","g","e"," ","c","h","e","e","s","e">>)
    @@ ("water" :> <<"w","a","t","e","r">>)
    @@ ("just water" :> <<"j","u","s","t"," ","w","a","t","e","r">>)
    @@ ("coffee" :> <<"c","o","f","f","e","e">>)
    @@ ("black coffee" :> <<"b","l","a","c","k"," ","c","o","f","f","e","e">>)
    @@ ("tea" :> <<"t","e","a">>)
    @@ ("green tea" :> <<"g","r","e","e","n"," ","t","e","a">>)
    @@ ("sparkling water" :> <<"s","p","a","r","k","l","i","n","g"," ","w","a","t","e","r">>)
    @@ ("diet soda" :> <<"d","i","e","t"," ","s","o","d","a">>)
    @@ ("soda" :> <<"s","o","d","a">>)
    @@ ("orange juice" :> <<"o","r","a","n","g","e"," ","j","u","i","c","e">>)
    @@ ("juice" :> <<"j","u","i","c","e">>)
    @@ ("smoothie" :> <<"s","m","o","o","t","h","i","e">>)
    @@ ("milkshake" :> <<"m","i","l","k","s","h","a","k","e">>)
    @@ ("latte" :> <<"l","a","t","t","e">>)
    @@ ("cappuccino" :> <<"c","a","p","p","u","c","c","i","n","o">>)
    @@ ("chips" :> <<"c","h","i","p","s">>)
    @@ ("cookies" :> <<"c","o","o","k","i","e","s">>)
    @@ ("cake" :> <<"c","a","k","e">>)
    @@ ("ice cream" :> <<"i","c","e"," ","c","r","e","a","m">>)
    @@ ("chocolate" :> <<"c","h","o","c","o","l","a","t","e">>)
    @@ ("popcorn" :> <<"p","o","p","c","o","r","n">>)
    @@ ("nuts" :> <<"n","u","t","s">>)
    @@ ("almonds" :> <<"a","l","m","o","n","d","s">>)
    @@ ("peanuts" :> <<"p","e","a","n","u","t","s">>)
    @@ ("granola bar" :> <<"g","r","a","n","o","l","a"," ","b","a","r">>)
    @@ ("soup" :> <<"s","o","u","p">>)
    @@ ("chicken soup" :> <<"c","h","i","c","k","e","n"," ","s","o","u","p">>)
    @@ ("tomato soup" :> <<"t","o","m","a","t","o"," ","s","o","u","p">>)
    @@ ("ramen" :> <<"r","a","m","e","n">>)
    @@ ("pho" :> <<"p","h","o">>)
    @@ ("bowl" :> <<"b","o","w","l">>)
    @@ ("acai bowl" :> <<"a","c","a","i"," ","b","o","w","l">>)
    @@ ("Brown rice" :> <<"B","r","o","w","n"," ","r","i","c","e">>)
    @@ ("egg and toast" :> <<"e","g","g"," ","a","n","d"," ","t","o","a","s","t">>)
    @@ ("xyz" :> <<"x","y","z">>)
    @@ ("grilled chicken breast with rice and broccoli" :> <<"g","r","i","l","l","e","d"," ","c","h","i","c","k","e","n"," ","b","r","e","a","s","t"," ","w","i","t","h"," ","r","i","c","e"," ","a","n","d"," ","b","r","o","c","c","o","l","i">>)
    @@ ("Grilled Chicken Soup" :> <<"G","r","i","l","l","e","d"," ","C","h","i","c","k","e","n"," ","S","o","u","p">>)
    @@ ("grilled chicken and chicken" :> <<"g","r","i","l","l","e","d"," ","c","h","i","c","k","e","n"," ","a","n","d"," ","c","h","i","c","k","e","n">>)
    @@ ("egg toast rice tuna corn milk soup pho" :> <<"e","g","g"," ","t","o","a","s","t"," ","r","i","c","e"," ","t","u","n","a"," ","c","o","r","n"," ","m","i","l","k"," ","s","o","u","p"," ","p","h","o">>)
    @@ ("steamed broccoli and scrambled eggs" :> <<"s","t","e","a","m","e","d"," ","b","r","o","c","c","o","l","i"," ","a","n","d"," ","s","c","r","a","m","b","l","e","d"," ","e","g","g","s">>)
    @@ ("scrambled eggs and two boiled eggs" :> <<"s","c","r","a","m","b","l","e","d"," ","e","g","g","s"," ","a","n","d"," ","t","w","o"," ","b","o","i","l","e","d"," ","e","g","g","s">>)
    @@ ("weight_loss" :> <<"w","e","i","g","h","t","_","l","o","s","s">>)
    @@ ("weight_gain" :> <<"w","e","i","g","h","t","_","g","a","i","n">>)
    @@ ("muscle_building" :> <<"m","u","s","c","l","e","_","b","u","i","l","d","i","n","g">>)
    @@ ("glycemic_control" :> <<"g","l","y","c","e","m","i","c","_","c","o","n","t","r","o","l">>)
    @@ ("heart_health" :> <<"h","e","a","r","t","_","h","e","a","l","t","h">>)
    @@ ("lower_cholesterol" :> <<"l","o","w","e","r","_","c","h","o","l","e","s","t","e","r","o","l">>)
    @@ ("general_wellness" :> <<"g","e","n","e","r","a","l","_","w","e","l","l","n","e","s","s">>)
    @@ ("type_2_diabetes" :> <<"t","y","p","e","_","2","_","d","i","a","b","e","t","e","s">>)
    @@ ("type_1_diabetes" :> <<"t","y","p","e","_","1","_","d","i","a","b","e","t","e","s">>)
    @@ ("hypertension" :> <<"h","y","p","e","r","t","e","n","s","i","o","n">>)
    @@ ("high_cholesterol" :> <<"h","i","g","h","_","c","h","o","l","e","s","t","e","r","o","l">>)
    @@ ("celiac_disease" :> <<"c","e","l","i","a","c","_","d","i","s","e","a","s","e">>)
    @@ ("lactose_intolerant" :> <<"l","a","c","t","o","s","e","_","i","n","t","o","l","e","r","a","n","t">>)
    @@ ("kidney_disease" :> <<"k","i","d","n","e","y","_","d","i","s","e","a","s","e">>)
    @@ ("Sugar" :> <<"S","u","g","a","r">>)
    @@ ("Sodium" :> <<"S","o","d","i","u","m">>)
    @@ ("Carbs" :> <<"C","a","r","b","s">>)
    @@ ("steamed brown rice" :> <<"s","t","e","a","m","e","d"," ","b","r","o","w","n"," ","r","i","c","e">>)
    @@ ("xyz " :> <<"x","y","z"," ">>)
    @@ ("meal" :> <<"m","e","a","l">>)
    @@ ("calories" :> <<"c","a","l","o","r","i","e","s">>)
    @@ ("protein" :> <<"p","r","o","t","e","i","n">>)
    @@ ("carbohydrates" :> <<"c","a","r","b","o","h","y","d","r","a","t","e","s">>)
    @@ ("fat" :> <<"f","a","t">>)
    @@ ("fiber" :> <<"f","i","b","e","r">>)
    @@ ("sugar" :> <<"s","u","g","a","r">>)
    @@ ("blood_glucose" :> <<"b","l","o","o","d","_","g","l","u","c","o","s","e">>)
    @@ ("sleep_quality" :> <<"s","l","e","e","p","_","q","u","a","l","i","t","y">>)
    @@ ("activity_level" :> <<"a","c","t","i","v","i","t","y","_","l","e","v","e","l">>)
    @@ ("daily_sodium" :> <<"d","a","i","l","y","_","s","o","d","i","u","m">>)
    @@ ("allergy_peanuts" :> <<"a","l","l","e","r","g","y","_","p","e","a","n","u","t","s">>)
    @@ ("low_sodium" :> <<"l","o","w","_","s","o","d","i","u","m">>)
    @@ ("allergy_" :> <<"a","l","l","e","r","g","y","_">>)
    @@ ("low_sodium_diet" :> <<"l","o","w","_","s","o","d","i","u","m","_","d","i","e","t">>)
    @@ ("carb" :> <<"c","a","r","b">>)
    @@ ("glucose" :> <<"g","l","u","c","o","s","e">>)
    @@ ("carbohydrate" :> <<"c","a","r","b","o","h","y","d","r","a","t","e">>)
    @@ ("carbs" :> <<"c","a","r","b","s">>)
    @@ ("sodium" :> <<"s","o","d","i","u","m">>)
    @@ ("glycemic control" :> <<"g","l","y","c","e","m","i","c"," ","c","o","n","t","r","o","l">>)
    @@ ("smaller portions" :> <<"s","m","a","l","l","e","r"," ","p","o","r","t","i","o","n","s">>)
    @@ ("wheat" :> <<"w","h","e","a","t">>)
    @@ ("barley" :> <<"b","a","r","l","e","y">>)
    @@ ("rye" :> <<"r","y","e">>)
    @@ ("Weight Gain: Add more protein to support healthy weight gain" :> <<"W","e","i","g","h","t"," ","G","a","i","n",":"," ","A","d","d"," ","m","o","r","e"," ","p","r","o","t","e","i","n"," ","t","o"," ","s","u","p","p","o","r","t"," ","h","e","a","l","t","h","y"," ","w","e","i","g","h","t"," ","g","a","i","n">>)
    @@ ("Weight Gain: Increase portion size for caloric surplus" :> <<"W","e","i","g","h","t"," ","G","a","i","n",":"," ","I","n","c","r","e","a","s","e"," ","p","o","r","t","i","o","n"," ","s","i","z","e"," ","f","o","r"," ","c","a","l","o","r","i","c"," ","s","u","r","p","l","u","s">>)
    @@ ("Weight Gain: Add more complex carbs for energy" :> <<"W","e","i","g","h","t"," ","G","a","i","n",":"," ","A","d","d"," ","m","o","r","e"," ","c","o","m","p","l","e","x"," ","c","a","r","b","s"," ","f","o","r"," ","e","n","e","r","g","y">>)
    @@ ("Muscle Building: Increase protein intake significantly" :> <<"M","u","s","c","l","e"," ","B","u","i","l","d","i","n","g",":"," ","I","n","c","r","e","a","s","e"," ","p","r","o","t","e","i","n"," ","i","n","t","a","k","e"," ","s","i","g","n","i","f","i","c","a","n","t","l","y">>)
    @@ ("Muscle Building: Good protein! Consider adding more for optimal muscle synthesis" :> <<"M","u","s","c","l","e"," ","B","u","i","l","d","i","n","g",":"," ","G","o","o","d"," ","p","r","o","t","e","i","n","!"," ","C","o","n","s","i","d","e","r"," ","a","d","d","i","n","g"," ","m","o","r","e"," ","f","o","r"," ","o","p","t","i","m","a","l"," ","m","u","s","c","l","e"," ","s","y","n","t","h","e","s","i","s">>)
    @@ ("Muscle Building: Ensure adequate calories for muscle growth" :> <<"M","u","s","c","l","e"," ","B","u","i","l","d","i","n","g",":"," ","E","n","s","u","r","e"," ","a","d","e","q","u","a","t","e"," ","c","a","l","o","r","i","e","s"," ","f","o","r"," ","m","u","s","c","l","e"," ","g","r","o","w","t","h">>)
    @@ ("Weight Loss: Consider smaller portions to maintain calorie deficit" :> <<"W","e","i","g","h","t"," ","L","o","s","s",":"," ","C","o","n","s","i","d","e","r"," ","s","m","a","l","l","e","r"," ","p","o","r","t","i","o","n","s"," ","t","o"," ","m","a","i","n","t","a","i","n"," ","c","a","l","o","r","i","e"," ","d","e","f","i","c","i","t">>)
    @@ ("Weight Loss: Add more protein to preserve muscle and stay full" :> <<"W","e","i","g","h","t"," ","L","o","s","s",":"," ","A","d","d"," ","m","o","r","e"," ","p","r","o","t","e","i","n"," ","t","o"," ","p","r","e","s","e","r","v","e"," ","m","u","s","c","l","e"," ","a","n","d"," ","s","t","a","y"," ","f","u","l","l">>)
    @@ ("Weight Loss: Add fiber-rich foods for satiety" :> <<"W","e","i","g","h","t"," ","L","o","s","s",":"," ","A","d","d"," ","f","i","b","e","r","-","r","i","c","h"," ","f","o","o","d","s"," ","f","o","r"," ","s","a","t","i","e","t","y">>)
    @@ ("Glycemic Control: High sugar content may spike blood glucose" :> <<"G","l","y","c","e","m","i","c"," ","C","o","n","t","r","o","l",":"," ","H","i","g","h"," ","s","u","g","a","r"," ","c","o","n","t","e","n","t"," ","m","a","y"," ","s","p","i","k","e"," ","b","l","o","o","d"," ","g","l","u","c","o","s","e">>)
    @@ ("Glycemic Control: High carbs with low fiber - consider swapping" :> <<"G","l","y","c","e","m","i","c"," ","C","o","n","t","r","o","l",":"," ","H","i","g","h"," ","c","a","r","b","s"," ","w","i","t","h"," ","l","o","w"," ","f","i","b","e","r"," ","-"," ","c","o","n","s","i","d","e","r"," ","s","w","a","p","p","i","n","g">>)
    @@ ("Heart Health: High sodium - limit processed foods and added salt" :> <<"H","e","a","r","t"," ","H","e","a","l","t","h",":"," ","H","i","g","h"," ","s","o","d","i","u","m"," ","-"," ","l","i","m","i","t"," ","p","r","o","c","e","s","s","e","d"," ","f","o","o","d","s"," ","a","n","d"," ","a","d","d","e","d"," ","s","a","l","t">>)
    @@ ("Heart Health: Add more fiber for cardiovascular health" :> <<"H","e","a","r","t"," ","H","e","a","l","t","h",":"," ","A","d","d"," ","m","o","r","e"," ","f","i","b","e","r"," ","f","o","r"," ","c","a","r","d","i","o","v","a","s","c","u","l","a","r"," ","h","e","a","l","t","h">>)
    @@ ("Lower Cholesterol: Fiber helps reduce cholesterol absorption" :> <<"L","o","w","e","r"," ","C","h","o","l","e","s","t","e","r","o","l",":"," ","F","i","b","e","r"," ","h","e","l","p","s"," ","r","e","d","u","c","e"," ","c","h","o","l","e","s","t","e","r","o","l"," ","a","b","s","o","r","p","t","i","o","n">>)
    @@ ("Lower Cholesterol: Reduce saturated fat intake" :> <<"L","o","w","e","r"," ","C","h","o","l","e","s","t","e","r","o","l",":"," ","R","e","d","u","c","e"," ","s","a","t","u","r","a","t","e","d"," ","f","a","t"," ","i","n","t","a","k","e">>)
    @@ ("General Wellness: Add more protein for overall health" :> <<"G","e","n","e","r","a","l"," ","W","e","l","l","n","e","s","s",":"," ","A","d","d"," ","m","o","r","e"," ","p","r","o","t","e","i","n"," ","f","o","r"," ","o","v","e","r","a","l","l"," ","h","e","a","l","t","h">>)
    @@ ("General Wellness: Boost fiber intake for digestive health" :> <<"G","e","n","e","r","a","l"," ","W","e","l","l","n","e","s","s",":"," ","B","o","o","s","t"," ","f","i","b","e","r"," ","i","n","t","a","k","e"," ","f","o","r"," ","d","i","g","e","s","t","i","v","e"," ","h","e","a","l","t","h">>)
    @@ ("General Wellness: Consider reducing sodium for better health" :> <<"G","e","n","e","r","a","l"," ","W","e","l","l","n","e","s","s",":"," ","C","o","n","s","i","d","e","r"," ","r","e","d","u","c","i","n","g"," ","s","o","d","i","u","m"," ","f","o","r"," ","b","e","t","t","e","r"," ","h","e","a","l","t","h">>)
    @@ ("General Wellness: Limit added sugars for better health" :> <<"G","e","n","e","r","a","l"," ","W","e","l","l","n","e","s","s",":"," ","L","i","m","i","t"," ","a","d","d","e","d"," ","s","u","g","a","r","s"," ","f","o","r"," ","b","e","t","t","e","r"," ","h","e","a","l","t","h">>)
    @@ ("Consider reducing portion to manage blood glucose" :> <<"C","o","n","s","i","d","e","r"," ","r","e","d","u","c","i","n","g"," ","p","o","r","t","i","o","n"," ","t","o"," ","m","a","n","a","g","e"," ","b","l","o","o","d"," ","g","l","u","c","o","s","e">>)
    @@ ("Reduce portion to lower carbohydrate intake" :> <<"R","e","d","u","c","e"," ","p","o","r","t","i","o","n"," ","t","o"," ","l","o","w","e","r"," ","c","a","r","b","o","h","y","d","r","a","t","e"," ","i","n","t","a","k","e">>)
    @@ ("High sodium content" :> <<"H","i","g","h"," ","s","o","d","i","u","m"," ","c","o","n","t","e","n","t">>)
    @@ ("Low fiber meal - consider adding vegetables" :> <<"L","o","w"," ","f","i","b","e","r"," ","m","e","a","l"," ","-"," ","c","o","n","s","i","d","e","r"," ","a","d","d","i","n","g"," ","v","e","g","e","t","a","b","l","e","s">>)
    @@ ("High carbohydrates (#g) may spike blood glucose" :> <<"H","i","g","h"," ","c","a","r","b","o","h","y","d","r","a","t","e","s"," ","(","#","g",")"," ","m","a","y"," ","s","p","i","k","e"," ","b","l","o","o","d"," ","g","l","u","c","o","s","e">>)
    @@ ("Moderate sugar (#g) - monitor blood glucose" :> <<"M","o","d","e","r","a","t","e"," ","s","u","g","a","r"," ","(","#","g",")"," ","-"," ","m","o","n","i","t","o","r"," ","b","l","o","o","d"," ","g","l","u","c","o","s","e">>)
    @@ ("Meal carbohydrates (#g) too high for current glucose level" :> <<"M","e","a","l"," ","c","a","r","b","o","h","y","d","r","a","t","e","s"," ","(","#","g",")"," ","t","o","o"," ","h","i","g","h"," ","f","o","r"," ","c","u","r","r","e","n","t"," ","g","l","u","c","o","s","e"," ","l","e","v","e","l">>)
    @@ ("High sodium meal (#mg) - limit of 600mg recommended" :> <<"H","i","g","h"," ","s","o","d","i","u","m"," ","m","e","a","l"," ","(","#","m","g",")"," ","-"," ","l","i","m","i","t"," ","o","f"," ","6","0","0","m","g"," ","r","e","c","o","m","m","e","n","d","e","d">>)
    @@ ("Moderate sodium (#mg) in this meal" :> <<"M","o","d","e","r","a","t","e"," ","s","o","d","i","u","m"," ","(","#","m","g",")"," ","i","n"," ","t","h","i","s"," ","m","e","a","l">>)
    @@ ("Check all items for peanuts content" :> <<"C","h","e","c","k"," ","a","l","l"," ","i","t","e","m","s"," ","f","o","r"," ","p","e","a","n","u","t","s"," ","c","o","n","t","e","n","t">>)

UpperToLower ==
       ("A" :> "a") @@ ("B" :> "b") @@ ("C" :> "c") @@ ("D" :> "d") @@ ("E" :> "e")
    @@ ("F" :> "f") @@ ("G" :> "g") @@ ("H" :> "h") @@ ("I" :> "i") @@ ("J" :> "j")
    @@ ("K" :> "k") @@ ("L" :> "l") @@ ("M" :> "m") @@ ("N" :> "n") @@ ("O" :> "o")
    @@ ("P" :> "p") @@ ("Q" :> "q") @@ ("R" :> "r") @@ ("S" :> "s") @@ ("T" :> "t")
    @@ ("U" :> "u") @@ ("V" :> "v") @@ ("W" :> "w") @@ ("X" :> "x") @@ ("Y" :> "y")
    @@ ("Z" :> "z")

\* str.lower() on a character sequence
lower(cs) ==
    [i \in 1..Len(cs) |-> IF cs[i] \in DOMAIN UpperToLower THEN UpperToLower[cs[i]] ELSE cs[i]]

\* str.find(): the 0-based index of the first occurrence of needle, -1 if none
find(hay, needle) ==
    LET at == {i \in 0..(Len(hay) - Len(needle)) :
                  \A j \in 1..Len(needle) : hay[i + j] = needle[j]}
    IN  IF at = {} THEN -1 ELSE Min(at)

\* needle in hay
contains(hay, needle) == find(hay, needle) # -1

\* needle in s.lower(), on strings
lower_contains(s, needle) == contains(lower(Chars[s]), Chars[needle])

(***************************************************************************)
(* state.py, user_goals.py: the data model.                                *)
(***************************************************************************)
NutrientInfo(n, a) == [name |-> n, amount |-> a]

FoodItem(n, g, c) == [name |-> n, portion_grams |-> g, confidence |-> c, nutrients |-> <<>>]

HealthConstraint(t, s) == [constraint_type |-> t, status |-> s]

MealAdjustment(f, a, r, alt, p) ==
    [food_name |-> f, action |-> a, reason |-> r, alternative |-> alt, priority |-> p]

\* the members of the AdjustmentAction enum
AdjustmentAction == {"reduce", "replace", "remove", "add"}

\* a violation or warning string: its text with the amount the f-string put
\* in it, and whether it carries the warning marker
Message(t, a, m) == [text |-> t, amount |-> a, marker |-> m]

\* MealState(user_id=...): every other field at its default
MealState(uid) ==
    [ user_id                   |-> uid,
      detected_foods            |-> <<>>,
      raw_ocr_text              |-> "None",
      image_analysis_confidence |-> 0,
      health_constraints        |-> <<>>,
      total_nutrients           |-> <<>>,
      constraint_violations     |-> <<>>,
      adjustments               |-> <<>>,
      summary                   |-> NoneRec,
      overall_score             |-> None,
      agent_calls               |-> <<>>,
      processing_time_ms        |-> None ]

\* UserProfile: the fields the orchestrator reads
UserProfile(g, c) == [kind |-> "UserProfile", goals |-> g, conditions |-> c]

\* {n.name: n.amount for n in nutrients}.get(name, default): the last entry
\* of that name wins
nutrients_get(nutrients, name, default) ==
    LET at == {i \in 1..Len(nutrients) : nutrients[i].name = name}
    IN  IF at = {} THEN default ELSE nutrients[Max(at)].amount

\* next((n.amount for n in nutrients if n.name == name), 0): the first entry
first_amount(nutrients, name) ==
    LET at == {i \in 1..Len(nutrients) : nutrients[i].name = name}
    IN  IF at = {} THEN 0 ELSE nutrients[Min(at)].amount

(***************************************************************************)
(* orchestrator.py: constants.                                             *)
(***************************************************************************)
EXTRACTION_CONFIDENCE_THRESHOLD == 15
MIN_FOODS_FOR_SUCCESS == 1
\* the literal 0.1 of _is_extraction_failed
VERY_LOW_CONFIDENCE == 10

(***************************************************************************)
(* orchestrator.py: _add_mock_foods.                                       *)
(***************************************************************************)
_add_mock_foods(state) ==
    [state EXCEPT
        !.detected_foods = << FoodItem("grilled chicken breast", 150, 90),
                              FoodItem("brown rice", 200, 85),
                              FoodItem("steamed broccoli", 100, 88) >>,
        !.image_analysis_confidence = 87]

(***************************************************************************)
(* orchestrator.py: _parse_text_input.                                     *)
(***************************************************************************)
\* the food dictionary, in the order of the dict literal
common_foods == <<
    [name |-> "grilled chicken breast", grams |-> 150],
    [name |-> "grilled chicken", grams |-> 150],
    [name |-> "fried chicken", grams |-> 180],
    [name |-> "chicken breast", grams |-> 150],
    [name |-> "chicken wings", grams |-> 120],
    [name |-> "chicken", grams |-> 150],
    [name |-> "salmon", grams |-> 150],
    [name |-> "grilled salmon", grams |-> 150],
    [name |-> "tuna", grams |-> 140],
    [name |-> "shrimp", grams |-> 100],
    [name |-> "steak", grams |-> 200],
    [name |-> "beef", grams |-> 150],
    [name |-> "ground beef", grams |-> 150],
    [name |-> "pork chop", grams |-> 150],
    [name |-> "bacon", grams |-> 30],
    [name |-> "sausage", grams |-> 100],
    [name |-> "turkey", grams |-> 150],
    [name |-> "eggs", grams |-> 100],
    [name |-> "egg", grams |-> 50],
    [name |-> "scrambled eggs", grams |-> 120],
    [name |-> "tofu", grams |-> 100],
    [name |-> "brown rice", grams |-> 200],
    [name |-> "white rice", grams |-> 200],
    [name |-> "rice", grams |-> 200],
    [name |-> "quinoa", grams |-> 185],
    [name |-> "pasta", grams |-> 200],
    [name |-> "spaghetti", grams |-> 200],
    [name |-> "bread", grams |-> 30],
    [name |-> "garlic bread", grams |-> 60],
    [name |-> "toast", grams |-> 60],
    [name |-> "bagel", grams |-> 100],
    [name |-> "oatmeal", grams |-> 250],
    [name |-> "cereal", grams |-> 40],
    [name |-> "pepperoni pizza", grams |-> 250],
    [name |-> "cheese pizza", grams |-> 220],
    [name |-> "pizza", grams |-> 220],
    [name |-> "hamburger", grams |-> 250],
    [name |-> "cheeseburger", grams |-> 280],
    [name |-> "burger", grams |-> 250],
    [name |-> "hot dog", grams |-> 150],
    [name |-> "french fries", grams |-> 120],
    [name |-> "fries", grams |-> 120],
    [name |-> "nachos", grams |-> 200],
    [name |-> "tacos", grams |-> 180],
    [name |-> "burrito", grams |-> 300],
    [name |-> "broccoli", grams |-> 100],
    [name |-> "steamed broccoli", grams |-> 100],
    [name |-> "roasted vegetables", grams |-> 150],
    [name |-> "vegetables", grams |-> 100],
    [name |-> "spinach", grams |-> 30],
    [name |-> "salad", grams |-> 150],
    [name |-> "green salad", grams |-> 150],
    [name |-> "caesar salad", grams |-> 200],
    [name |-> "carrot", grams |-> 60],
    [name |-> "carrots", grams |-> 80],
    [name |-> "potato", grams |-> 150],
    [name |-> "baked potato", grams |-> 200],
    [name |-> "mashed potatoes", grams |-> 200],
    [name |-> "sweet potato", grams |-> 150],
    [name |-> "corn", grams |-> 90],
    [name |-> "green beans", grams |-> 100],
    [name |-> "asparagus", grams |-> 90],
    [name |-> "avocado", grams |-> 100],
    [name |-> "apple", grams |-> 180],
    [name |-> "banana", grams |-> 120],
    [name |-> "orange", grams |-> 130],
    [name |-> "strawberries", grams |-> 150],
    [name |-> "blueberries", grams |-> 150],
    [name |-> "grapes", grams |-> 100],
    [name |-> "watermelon", grams |-> 150],
    [name |-> "mango", grams |-> 165],
    [name |-> "cheese", grams |-> 30],
    [name |-> "yogurt", grams |-> 170],
    [name |-> "greek yogurt", grams |-> 170],
    [name |-> "milk", grams |-> 240],
    [name |-> "cottage cheese", grams |-> 225],
    [name |-> "water", grams |-> 240],
    [name |-> "just water", grams |-> 240],
    [name |-> "coffee", grams |-> 240],
    [name |-> "black coffee", grams |-> 240],
    [name |-> "tea", grams |-> 240],
    [name |-> "green tea", grams |-> 240],
    [name |-> "sparkling water", grams |-> 240],
    [name |-> "diet soda", grams |-> 355],
    [name |-> "soda", grams |-> 355],
    [name |-> "orange juice", grams |-> 240],
    [name |-> "juice", grams |-> 240],
    [name |-> "smoothie", grams |-> 350],
    [name |-> "milkshake", grams |-> 400],
    [name |-> "latte", grams |-> 350],
    [name |-> "cappuccino", grams |-> 250],
    [name |-> "chips", grams |-> 50],
    [name |-> "cookies", grams |-> 60],
    [name |-> "cake", grams |-> 100],
    [name |-> "ice cream", grams |-> 130],
    [name |-> "chocolate", grams |-> 45],
    [name |-> "popcorn", grams |-> 30],
    [name |-> "nuts", grams |-> 30],
    [name |-> "almonds", grams |-> 30],
    [name |-> "peanuts", grams |-> 30],
    [name |-> "granola bar", grams |-> 40],
    [name |-> "soup", grams |-> 240],
    [name |-> "chicken soup", grams |-> 240],
    [name |-> "tomato soup", grams |-> 240],
    [name |-> "ramen", grams |-> 400],
    [name |-> "pho", grams |-> 500],
    [name |-> "bowl", grams |-> 350],
    [name |-> "acai bowl", grams |-> 300]
    >>

\* the keys as the dict literal has them
unsorted_foods == common_foods

\* sorted(common_foods.keys(), key=len, reverse=True): a stable sort, so
\* names of one length keep the dictionary's order
sorted_foods ==
    LET lens == {Len(Chars[common_foods[i].name]) : i \in 1..Len(common_foods)}
        ofLen(l) == SelectSeq(common_foods, LAMBDA f : Len(Chars[f.name]) = l)
        RECURSIVE from(_)
        from(l) == IF l < Min(lens) THEN <<>> ELSE ofLen(l) \o from(l - 1)
    IN  from(Max(lens))

\* the cap on matched items
MAX_MATCHED_FOODS == 6

\* the entries of sorted_foods the loop finds in the text (idx != -1), in
\* the loop's order; the loop does nothing for the others
found_foods(text_lower) ==
    SelectSeq(sorted_foods, LAMBDA food : find(text_lower, Chars[food.name]) # -1)

\* the loop, over the found entries from position i on: the matched items,
\* given those matched so far and the text indices used so far
RECURSIVE match_foods(_, _, _, _, _)
match_foods(text_lower, found, i, matched_foods, used_indices) ==
    IF i > Len(found) THEN matched_foods
    ELSE
      LET food == found[i]
          idx  == find(text_lower, Chars[food.name])
          span == idx..(idx + Len(Chars[food.name]) - 1)
      IN  IF span \cap used_indices = {}
          THEN LET m == Append(matched_foods, FoodItem(food.name, food.grams, 70))
               IN  IF Len(m) >= MAX_MATCHED_FOODS THEN m
                   ELSE match_foods(text_lower, found, i + 1, m, used_indices \cup span)
          ELSE match_foods(text_lower, found, i + 1, matched_foods, used_indices)

\* str.strip() on a character sequence
Whitespace == {" ", "\t", "\n", "\r"}

strip(cs) ==
    LET inked == {i \in 1..Len(cs) : cs[i] \notin Whitespace}
    IN  IF inked = {} THEN <<>> ELSE SubSeq(cs, Min(inked), Max(inked))

\* seq[:n]
take(seq, n) == IF Len(seq) > n THEN SubSeq(seq, 1, n) ELSE seq

\* the string of a character sequence
RECURSIVE join(_)
join(cs) == IF cs = <<>> THEN "" ELSE Head(cs) \o join(Tail(cs))

\* the cap on the length of an unknown food's name
MAX_NAME_CHARS == 50

\* text.strip()[:50]
cleaned_text(text) == join(take(strip(Chars[text]), MAX_NAME_CHARS))

_parse_text_input(state, text) ==
    LET text_lower == lower(Chars[text])
        matched_foods == match_foods(text_lower, found_foods(text_lower), 1, <<>>, {})
    IN  IF matched_foods # <<>>
        THEN [state EXCEPT
                !.detected_foods = matched_foods,
                !.image_analysis_confidence = IF Len(matched_foods) > 1 THEN 70 ELSE 60]
        ELSE [state EXCEPT
                !.detected_foods =
                    << FoodItem(IF cleaned_text(text) # "" THEN cleaned_text(text) ELSE "meal",
                                300, 40) >>,
                !.image_analysis_confidence = 30]

(***************************************************************************)
(* orchestrator.py: the extraction-failure gate and its handler.           *)
(***************************************************************************)
\* the gate without its very-low-confidence arm
gate_without_hallucination_guard(state, is_image) ==
    /\ is_image
    /\ Len(state.detected_foods) < MIN_FOODS_FOR_SUCCESS
    /\ state.image_analysis_confidence < EXTRACTION_CONFIDENCE_THRESHOLD

_is_extraction_failed(state, is_image) ==
    LET no_foods_detected == Len(state.detected_foods) < MIN_FOODS_FOR_SUCCESS
        low_confidence == state.image_analysis_confidence < EXTRACTION_CONFIDENCE_THRESHOLD
    IN  /\ is_image
        /\ \/ no_foods_detected /\ low_confidence
           \/ state.image_analysis_confidence < VERY_LOW_CONFIDENCE

IMAGE_FAILURE_SUMMARY == [kind |-> "extraction_failure", input |-> "image"]
TEXT_FAILURE_SUMMARY == [kind |-> "extraction_failure", input |-> "text"]

\* the handler without the score
handle_failure_without_score(state, is_image) ==
    [state EXCEPT
        !.detected_foods = <<>>,
        !.total_nutrients = <<>>,
        !.adjustments = <<>>,
        !.constraint_violations = <<>>,
        !.summary = IF is_image THEN IMAGE_FAILURE_SUMMARY ELSE TEXT_FAILURE_SUMMARY]

_handle_extraction_failure(state, is_image) ==
    [state EXCEPT
        !.detected_foods = <<>>,
        !.total_nutrients = <<>>,
        !.adjustments = <<>>,
        !.constraint_violations = <<>>,
        !.overall_score = 0,
        !.summary = IF is_image THEN IMAGE_FAILURE_SUMMARY ELSE TEXT_FAILURE_SUMMARY]

(***************************************************************************)
(* base_agent.py: BaseAgent.execute and execute_with_retry.                *)
(*                                                                         *)
(* What an agent's process() does on one call is an outcome record:        *)
(* it raises, or it returns an output.  The model gives an agent the same  *)
(* outcome on every attempt of one call.                                   *)
(***************************************************************************)
Raise(how) == [raises |-> TRUE, how |-> how, output |-> NoneRec]
Return(how, out) == [raises |-> FALSE, how |-> how, output |-> out]

AgentResult(ok, out, n) == [success |-> ok, output |-> out, attempts |-> n]

\* max_retries, as each agent's __init__ passes it to BaseAgent.__init__
max_retries(agent) ==
    CASE agent = "VisionAnalyst" -> 3
      [] agent = "BioDataScout"  -> 2
      [] agent = "NutriAuditor"  -> 2

\* execute_with_retry, which the orchestrator does not call: up to
\* max_retries attempts while process() fails
execute_with_retry(agent, outcome) ==
    IF outcome.raises
    THEN AgentResult(FALSE, NoneRec, max_retries(agent))
    ELSE AgentResult(TRUE, outcome.output, 1)

\* execute: one attempt; what process() raises is caught and reported
execute(agent, outcome) ==
    IF outcome.raises
    THEN AgentResult(FALSE, NoneRec, 1)
    ELSE AgentResult(TRUE, outcome.output, 1)

\* bool(result.output): None is false, a pydantic model is true
truthy(output) == output # NoneRec

(***************************************************************************)
(* vision_analyst.py: what VisionAnalyst.process can return.               *)
(***************************************************************************)
VisionOutput(foods, conf) ==
    [kind |-> "VisionOutput", foods |-> foods, ocr_text |-> "None", overall_confidence |-> conf]

\* no Gemini model is configured
_get_mock_output ==
    VisionOutput(<< FoodItem("grilled chicken breast", 150, 92),
                    FoodItem("steamed brown rice", 200, 88),
                    FoodItem("steamed broccoli", 100, 90) >>, 87)

\* a timeout answered with the mock foods
timeout_answered_with_mock == VisionOutput(<< FoodItem("grilled chicken breast", 150, 92) >>, 87)

\* asyncio.TimeoutError from wait_for
vision_timeout_output == VisionOutput(<<>>, 0)

\* any other exception of the Gemini call, and _parse_response's own failure
vision_error_output == VisionOutput(<<>>, 0)

\* food lists a Gemini response may carry
ResponseFoods ==
    { <<>>,
      << FoodItem("white rice", 200, 80) >>,
      << FoodItem("grilled chicken breast", 150, 90), FoodItem("white rice", 200, 80),
         FoodItem("steamed broccoli", 100, 85), FoodItem("avocado", 100, 70) >> }

\* overall confidences a Gemini response may carry
ResponseConfidences == {8, 10, 12, 15, 88}

\* the ocr_text a Gemini response may carry: null, or the text seen
ResponseOcrTexts == {"None", "Daily menu"}

VisionOutcomes ==
    {Return("mock", _get_mock_output), Return("timeout", vision_timeout_output),
     Return("error", vision_error_output), Raise("raise")}
    \cup {Return("parsed", [VisionOutput(f, c) EXCEPT !.ocr_text = t]) :
                f \in ResponseFoods, c \in ResponseConfidences, t \in ResponseOcrTexts}

(***************************************************************************)
(* biodata_scout.py: what BioDataScout.process can return.                 *)
(***************************************************************************)
BioDataReport(constraints) == [kind |-> "BioDataReport", constraints |-> constraints]

\* the constraints of the default query types, for a glucose status, and
\* one allergy constraint for each allergy of the mock profile
scout_constraints(glucose_status, sodium_status, allergies) ==
    << HealthConstraint("blood_glucose", glucose_status),
       HealthConstraint("sleep_quality", "normal"),
       HealthConstraint("activity_level", "normal"),
       HealthConstraint("daily_sodium", sodium_status) >>
    \o [i \in 1..Len(allergies) |-> HealthConstraint(allergies[i], "critical")]

\* a Constraint stage that reports the sodium limit twice, as the day's
\* intake and as a diet restriction: the Nutrition stage checks every
\* constraint whose type contains "low_sodium" or is "daily_sodium"
low_sodium_constraints ==
    scout_constraints("warning", "warning", <<>>)
    \o << HealthConstraint("low_sodium_diet", "warning") >>

BioDataOutcomes ==
    {Return("report", BioDataReport(scout_constraints("normal", "normal", <<>>))),
     Return("report", BioDataReport(scout_constraints("warning", "warning", <<>>))),
     Return("report", BioDataReport(scout_constraints("critical", "normal", <<"allergy_peanuts">>))),
     Return("report", BioDataReport(low_sodium_constraints)),
     Raise("raise")}

(***************************************************************************)
(* nutri_auditor.py: NutriAuditor.process.                                 *)
(***************************************************************************)
\* _get_nutrition: what the USDA lookup (or the cache, or the fallback
\* table) has for a food, already scaled by the portion.  The data is the
\* collaborator's; the model has four sources of it.
NutritionSources == {"typical", "rich", "salty", "empty"}

Nutrients(cal, pro, carb, fat, fib, sod, sug) ==
    << NutrientInfo("calories", cal), NutrientInfo("protein", pro),
       NutrientInfo("carbohydrates", carb), NutrientInfo("fat", fat),
       NutrientInfo("fiber", fib), NutrientInfo("sodium", sod), NutrientInfo("sugar", sug) >>

_get_nutrition(source, food_name) ==
    CASE source = "empty" -> <<>>
      [] source = "rich"  -> Nutrients(420, 12, 30, 28, 2, 450, 8)
      [] source = "salty" -> Nutrients(180, 8, 20, 6, 1, 300, 9)
      [] source = "typical" ->
            IF lower_contains(food_name, "chicken") THEN Nutrients(250, 46, 0, 5, 0, 110, 0)
            ELSE IF lower_contains(food_name, "rice") THEN Nutrients(260, 5, 56, 1, 1, 2, 18)
            ELSE IF lower_contains(food_name, "broccoli") THEN Nutrients(34, 3, 7, 0, 7, 33, 2)
            ELSE Nutrients(100, 5, 15, 3, 1, 100, 3)

\* the loop of process(): food.nutrients is set on the request's own items
enrich(foods, source) ==
    [i \in 1..Len(foods) |->
        IF _get_nutrition(source, foods[i].name) # <<>>
        THEN [foods[i] EXCEPT !.nutrients = _get_nutrition(source, foods[i].name)]
        ELSE foods[i]]

\* the nutrient entries of all foods, in order
RECURSIVE all_nutrients(_)
all_nutrients(foods) ==
    IF foods = <<>> THEN <<>> ELSE Head(foods).nutrients \o all_nutrients(Tail(foods))

\* the names of a list of entries, each once, in the order of first occurrence
RECURSIVE distinct_names(_, _)
distinct_names(entries, seen) ==
    IF entries = <<>> THEN <<>>
    ELSE IF Head(entries).name \in seen THEN distinct_names(Tail(entries), seen)
    ELSE <<Head(entries).name>> \o distinct_names(Tail(entries), seen \cup {Head(entries).name})

RECURSIVE sum_amounts(_, _)
sum_amounts(entries, name) ==
    IF entries = <<>> THEN 0
    ELSE (IF Head(entries).name = name THEN Head(entries).amount ELSE 0)
         + sum_amounts(Tail(entries), name)

_calculate_totals(foods) ==
    LET entries == all_nutrients(foods)
        names == distinct_names(entries, {})
    IN  [i \in 1..Len(names) |-> NutrientInfo(names[i], sum_amounts(entries, names[i]))]

\* the violation text of an allergy constraint
allergy_text ==
    ("allergy_peanuts" :> "Check all items for peanuts content")

\* what one constraint adds: <<violations, warnings>>
check_constraint(nutrient_values, constraint) ==
    LET type   == constraint.constraint_type
        carbs  == nutrients_get(nutrient_values, "carbohydrates", 0)
        sugar  == nutrients_get(nutrient_values, "sugar", 0)
        sodium == nutrients_get(nutrient_values, "sodium", 0)
    IN  IF type = "blood_glucose"
        THEN IF constraint.status = "warning"
             THEN IF carbs > 45
                  THEN << <<Message("High carbohydrates (#g) may spike blood glucose", carbs, FALSE)>>, <<>> >>
                  ELSE IF sugar > 15
                  THEN << <<>>, <<Message("Moderate sugar (#g) - monitor blood glucose", sugar, FALSE)>> >>
                  ELSE << <<>>, <<>> >>
             ELSE IF constraint.status = "critical" /\ carbs > 30
                  THEN << <<Message("Meal carbohydrates (#g) too high for current glucose level", carbs, FALSE)>>, <<>> >>
                  ELSE << <<>>, <<>> >>
        ELSE IF contains(Chars[type], Chars["low_sodium"]) \/ type = "daily_sodium"
        THEN IF sodium > 800
             THEN << <<Message("High sodium meal (#mg) - limit of 600mg recommended", sodium, FALSE)>>, <<>> >>
             ELSE IF sodium > 500
             THEN << <<>>, <<Message("Moderate sodium (#mg) in this meal", sodium, FALSE)>> >>
             ELSE << <<>>, <<>> >>
        ELSE IF find(Chars[type], Chars["allergy_"]) = 0
        THEN << <<Message(allergy_text[type], None, TRUE)>>, <<>> >>
        ELSE << <<>>, <<>> >>

RECURSIVE _check_constraints(_, _)
_check_constraints(total_nutrients, constraints) ==
    IF constraints = <<>> THEN << <<>>, <<>> >>
    ELSE LET here == check_constraint(total_nutrients, Head(constraints))
             rest == _check_constraints(total_nutrients, Tail(constraints))
         IN  << here[1] \o rest[1], here[2] \o rest[2] >>

\* the first food with more than `over` of a nutrient, as a one-item list of
\* its index, or the empty list
first_food_over(foods, name, over) ==
    LET at == {i \in 1..Len(foods) : first_amount(foods[i].nutrients, name) > over}
    IN  IF at = {} THEN <<>> ELSE <<Min(at)>>

auditor_suggestion(foods, violation) ==
    IF lower_contains(violation.text, "carbohydrate") \/ lower_contains(violation.text, "carbs")
    THEN [k \in 1..Len(first_food_over(foods, "carbohydrates", 20)) |->
            LET food == foods[first_food_over(foods, "carbohydrates", 20)[k]]
            IN  MealAdjustment(food.name, "reduce", "Reduce portion to lower carbohydrate intake",
                               IF lower_contains(food.name, "rice") THEN "cauliflower rice" ELSE "None",
                               1)]
    ELSE IF lower_contains(violation.text, "sodium")
    THEN [k \in 1..Len(first_food_over(foods, "sodium", 200)) |->
            MealAdjustment(foods[first_food_over(foods, "sodium", 200)[k]].name, "replace",
                           "High sodium content", "unseasoned version or fresh alternative", 2)]
    ELSE <<>>

RECURSIVE violation_suggestions(_, _)
violation_suggestions(foods, violations) ==
    IF violations = <<>> THEN <<>>
    ELSE auditor_suggestion(foods, Head(violations))
         \o violation_suggestions(foods, Tail(violations))

_generate_suggestions(foods, violations) ==
    violation_suggestions(foods, violations)
    \o (IF sum_amounts(all_nutrients(foods), "fiber") < 5
        THEN << MealAdjustment("meal", "add", "Low fiber meal - consider adding vegetables",
                               "leafy greens, broccoli, or beans", 3) >>
        ELSE <<>>)

NutriAuditReport(totals, violations, warnings, suggestions, foods) ==
    [kind |-> "NutriAuditReport", total_nutrients |-> totals, violations |-> violations,
     warnings |-> warnings, suggestions |-> suggestions, foods |-> foods]

\* process(): the report, which also carries the request's foods as the loop
\* left them (they are the state's own FoodItem objects)
NutriAuditor_process(foods, user_constraints, source) ==
    LET enriched == enrich(foods, source)
        totals   == _calculate_totals(enriched)
        checked  == _check_constraints(totals, user_constraints)
    IN  NutriAuditReport(totals, checked[1], checked[2],
                         _generate_suggestions(enriched, checked[1]), enriched)

(***************************************************************************)
(* orchestrator.py: _calculate_meal_score and _generate_summary.           *)
(***************************************************************************)
BASE_SCORE == 70
MIN_SCORE == 0
MAX_SCORE == 100

\* max(0, min(100, score)) without the bounds
clamp_missing(score) == score

\* max(0, min(100, score))
clamp(score) ==
    IF score > MAX_SCORE THEN MAX_SCORE ELSE IF score < MIN_SCORE THEN MIN_SCORE ELSE score

\* a score whose top protein tier pays less than the middle one
raw_meal_score_dip(state) ==
    BASE_SCORE
    + (IF nutrients_get(state.total_nutrients, "protein", 0) >= 30 THEN 5
       ELSE IF nutrients_get(state.total_nutrients, "protein", 0) >= 10 THEN 10 ELSE 0)
    - Len(state.constraint_violations) * 10

\* the score before it is clamped
raw_meal_score(state) ==
    LET protein == nutrients_get(state.total_nutrients, "protein", 0)
        fiber   == nutrients_get(state.total_nutrients, "fiber", 0)
        sodium  == nutrients_get(state.total_nutrients, "sodium", 0)
        serious_violations ==
            Cardinality({i \in 1..Len(state.constraint_violations) :
                            ~state.constraint_violations[i].marker})
    IN  BASE_SCORE
        + (IF protein >= 30 THEN 15 ELSE IF protein >= 20 THEN 10 ELSE IF protein >= 10 THEN 5 ELSE 0)
        + (IF fiber >= 8 THEN 10 ELSE IF fiber >= 5 THEN 5 ELSE 0)
        - (IF sodium > 1000 THEN 10 ELSE IF sodium > 800 THEN 5 ELSE 0)
        - serious_violations * 10
        + (IF Len(state.detected_foods) >= 4 THEN 10
           ELSE IF Len(state.detected_foods) >= 3 THEN 5 ELSE 0)

_calculate_meal_score(state) == clamp(raw_meal_score(state))

_generate_summary(state) ==
    [ kind        |-> "analysis",
      foods_list  |-> [i \in 1..(IF Len(state.detected_foods) > 3 THEN 3
                                 ELSE Len(state.detected_foods)) |-> state.detected_foods[i].name],
      more        |-> IF Len(state.detected_foods) > 3 THEN Len(state.detected_foods) - 3 ELSE 0,
      calories    |-> nutrients_get(state.total_nutrients, "calories", 0),
      protein     |-> nutrients_get(state.total_nutrients, "protein", 0),
      carbs       |-> nutrients_get(state.total_nutrients, "carbohydrates", 0),
      remark      |-> IF state.overall_score >= 85 THEN "excellent"
                      ELSE IF state.overall_score >= 70 THEN "great"
                      ELSE IF state.overall_score >= 55 THEN "good"
                      ELSE "adjust",
      suggestions |-> Len(state.adjustments) ]

(***************************************************************************)
(* orchestrator.py: _generate_goal_suggestions.                            *)
(***************************************************************************)
\* {n.name.lower(): n.amount for n in total_nutrients}.get(name, default)
lowered_get(nutrients, name, default) ==
    LET at == {i \in 1..Len(nutrients) : lower(Chars[nutrients[i].name]) = Chars[name]}
    IN  IF at = {} THEN default ELSE nutrients[Max(at)].amount

\* the result of a computation that may raise: the exception's name, or
\* "none" and the value
Raised(exc) == [exc |-> exc, value |-> <<>>]
Value(v) == [exc |-> "none", value |-> v]

\* an adjustment, if its condition holds
when(c, adj) == IF c THEN <<adj>> ELSE <<>>

\* the list without its filter: every detected food
high_cal_foods_unfiltered(detected_foods) == detected_foods

\* [f for f in state.detected_foods if any(n.name == "calories" and
\*  n.amount > 200 for n in f.nutrients)]
high_cal_foods(detected_foods) ==
    SelectSeq(detected_foods,
              LAMBDA f : \E i \in 1..Len(f.nutrients) :
                            f.nutrients[i].name = "calories" /\ f.nutrients[i].amount > 200)

\* the adjustments one goal appends, given the meal's nutrients; the
\* glycemic swap rule names AdjustmentAction.SWAP, which the enum does not
\* have: evaluating it raises AttributeError
goal_rules_on(goal, detected_foods, protein, calories, carbs, fiber, sodium, fat, sugar) ==
    CASE goal = "weight_gain" -> Value(
            when(protein < 30, MealAdjustment("meal", "add",
                "Weight Gain: Add more protein to support healthy weight gain",
                "grilled chicken, eggs, Greek yogurt, or protein shake", 1))
         \o when(calories < 400, MealAdjustment("meal", "add",
                "Weight Gain: Increase portion size for caloric surplus",
                "add healthy fats like avocado, nuts, or olive oil", 2))
         \o when(carbs < 40, MealAdjustment("meal", "add",
                "Weight Gain: Add more complex carbs for energy",
                "brown rice, sweet potato, oats, or whole grain bread", 3)))
      [] goal = "muscle_building" -> Value(
            when(protein < 40, MealAdjustment("meal", "add",
                "Muscle Building: Increase protein intake significantly",
                "lean meat, fish, eggs, or whey protein", 1))
         \o when(protein >= 40 /\ protein < 50, MealAdjustment("meal", "add",
                "Muscle Building: Good protein! Consider adding more for optimal muscle synthesis",
                "add another egg or 2oz chicken breast", 3))
         \o when(calories < 500, MealAdjustment("meal", "add",
                "Muscle Building: Ensure adequate calories for muscle growth",
                "add carbs like rice or pasta to fuel workouts", 2)))
      [] goal = "weight_loss" -> Value(
            when(calories > 600, MealAdjustment(
                IF high_cal_foods(detected_foods) # <<>>
                THEN high_cal_foods(detected_foods)[1].name ELSE "meal", "reduce",
                "Weight Loss: Consider smaller portions to maintain calorie deficit",
                "use smaller plate or reduce portion by 25%", 1))
         \o when(protein < 25, MealAdjustment("meal", "add",
                "Weight Loss: Add more protein to preserve muscle and stay full",
                "lean chicken, fish, or tofu", 2))
         \o when(fiber < 5, MealAdjustment("meal", "add",
                "Weight Loss: Add fiber-rich foods for satiety",
                "vegetables, legumes, or whole grains", 3)))
      [] goal = "glycemic_control" ->
            IF carbs > 50 /\ fiber < 5
            THEN IF "swap" \in AdjustmentAction
                 THEN Value(
                        when(sugar > 15, MealAdjustment("meal", "reduce",
                            "Glycemic Control: High sugar content may spike blood glucose",
                            "choose unsweetened versions or reduce portion", 1))
                     \o << MealAdjustment("meal", "swap",
                            "Glycemic Control: High carbs with low fiber - consider swapping",
                            "cauliflower rice, zucchini noodles, or legumes", 2) >>)
                 ELSE Raised("AttributeError")
            ELSE Value(
                    when(sugar > 15, MealAdjustment("meal", "reduce",
                        "Glycemic Control: High sugar content may spike blood glucose",
                        "choose unsweetened versions or reduce portion", 1)))
      [] goal = "heart_health" -> Value(
            when(sodium > 600, MealAdjustment("meal", "reduce",
                "Heart Health: High sodium - limit processed foods and added salt",
                "use herbs and spices for flavor instead", 1))
         \o when(fiber < 5, MealAdjustment("meal", "add",
                "Heart Health: Add more fiber for cardiovascular health",
                "oats, beans, vegetables, or berries", 2)))
      [] goal = "lower_cholesterol" -> Value(
            when(fiber < 8, MealAdjustment("meal", "add",
                "Lower Cholesterol: Fiber helps reduce cholesterol absorption",
                "add oatmeal, beans, or vegetables", 1))
         \o when(fat > 25, MealAdjustment("meal", "reduce",
                "Lower Cholesterol: Reduce saturated fat intake",
                "choose lean proteins and limit fried foods", 2)))
      [] goal = "general_wellness" -> Value(
            when(protein < 20, MealAdjustment("meal", "add",
                "General Wellness: Add more protein for overall health",
                "lean meat, fish, eggs, beans, or tofu", 2))
         \o when(fiber < 5, MealAdjustment("meal", "add",
                "General Wellness: Boost fiber intake for digestive health",
                "vegetables, fruits, or whole grains", 2))
         \o when(sodium > 800, MealAdjustment("meal", "reduce",
                "General Wellness: Consider reducing sodium for better health",
                "use herbs and low-sodium seasonings", 3))
         \o when(sugar > 20, MealAdjustment("meal", "reduce",
                "General Wellness: Limit added sugars for better health",
                "choose naturally sweet foods like fruit", 3)))

\* the nutrient dictionary of _generate_goal_suggestions, read once
goal_rules(goal, state) ==
    goal_rules_on(goal, state.detected_foods,
                  lowered_get(state.total_nutrients, "protein", 0),
                  lowered_get(state.total_nutrients, "calories", 0),
                  lowered_get(state.total_nutrients, "carbohydrates",
                              lowered_get(state.total_nutrients, "carbs", 0)),
                  lowered_get(state.total_nutrients, "fiber", 0),
                  lowered_get(state.total_nutrients, "sodium", 0),
                  lowered_get(state.total_nutrients, "fat", 0),
                  lowered_get(state.total_nutrients, "sugar", 0))

\* one more turn of the loop over profile.goals: an exception ends it
goal_rules_then(here, rest) ==
    IF here.exc # "none" THEN here
    ELSE IF rest.exc # "none" THEN rest
    ELSE Value(here.value \o rest.value)

\* the loop over profile.goals: all the adjustments appended, or the
\* exception that ended the loop
RECURSIVE all_goal_rules(_, _)
all_goal_rules(goals, state) ==
    IF goals = <<>> THEN Value(<<>>)
    ELSE goal_rules_then(goal_rules(Head(goals), state), all_goal_rules(Tail(goals), state))

\* the priorities a MealAdjustment may have
Priorities == 1..5

\* suggestions.sort(key=lambda x: x.priority): a stable sort
RECURSIVE sort_by_priority_from(_, _)
sort_by_priority_from(suggestions, p) ==
    IF p > Max(Priorities) THEN <<>>
    ELSE SelectSeq(suggestions, LAMBDA s : s.priority = p)
         \o sort_by_priority_from(suggestions, p + 1)

\* a sort that turns round the adjustments of equal priority
sort_by_priority_unstable(suggestions) ==
    sort_by_priority_from([i \in 1..Len(suggestions) |-> suggestions[Len(suggestions) + 1 - i]],
                          Min(Priorities))

sort_by_priority(suggestions) == sort_by_priority_from(suggestions, Min(Priorities))

\* the cap on the adjustments returned
MAX_SUGGESTIONS == 3

\* the sort without the slice
top_suggestions_uncapped(suggestions) ==
    IF suggestions.exc # "none" THEN suggestions
    ELSE Value(sort_by_priority(suggestions.value))

\* suggestions.sort(...); return suggestions[:3]
top_suggestions(suggestions) ==
    IF suggestions.exc # "none" THEN suggestions
    ELSE Value(take(sort_by_priority(suggestions.value), MAX_SUGGESTIONS))

_generate_goal_suggestions(state, profile) ==
    top_suggestions(all_goal_rules(profile.goals, state))

(***************************************************************************)
(* orchestrator.py: _think, the part after the Nutrition stage answers.    *)
(***************************************************************************)
has_glycemic_goal(profile) ==
    \E i \in 1..Len(profile.goals) : profile.goals[i] = "glycemic_control"

has_diabetes(profile) ==
    \E i \in 1..Len(profile.conditions) :
        profile.conditions[i] \in {"type_1_diabetes", "type_2_diabetes"}

\* _think without the exemption of the users with a diabetes condition
filter_unless_goal(constraints, profile) ==
    IF truthy(profile) /\ ~has_glycemic_goal(profile)
    THEN SelectSeq(constraints, LAMBDA c : c.constraint_type # "blood_glucose")
    ELSE constraints

\* the filter of the Constraint stage's constraints
filter_constraints(constraints, profile) ==
    IF truthy(profile) /\ ~has_glycemic_goal(profile) /\ ~has_diabetes(profile)
    THEN SelectSeq(constraints, LAMBDA c : c.constraint_type # "blood_glucose")
    ELSE constraints

\* the loop that appends the warnings to the violations
RECURSIVE add_warnings(_, _)
add_warnings(constraint_violations, warnings) ==
    IF warnings = <<>> THEN constraint_violations
    ELSE add_warnings(
            IF \E i \in 1..Len(constraint_violations) : constraint_violations[i] = Head(warnings)
            THEN constraint_violations
            ELSE Append(constraint_violations, [Head(warnings) EXCEPT !.marker = TRUE]),
            Tail(warnings))

\* the state after a successful audit
store_audit(state, audit_output) ==
    [state EXCEPT
        !.detected_foods = audit_output.foods,
        !.total_nutrients = audit_output.total_nutrients,
        !.constraint_violations = add_warnings(audit_output.violations, audit_output.warnings)]

(***************************************************************************)
(* orchestrator.py: _act.                                                  *)
(***************************************************************************)
\* an attribute of the orchestrator instance: absent, or set to a value
NoAttr == [has |-> FALSE, value |-> <<>>]
Attr(v) == [has |-> TRUE, value |-> v]

\* what the goals branch leaves: the exception of the rule engine, or its
\* suggestions
from_goals(goal_suggestions, pending) ==
    [exc |-> goal_suggestions.exc, adjustments |-> goal_suggestions.value,
     pending |-> pending, source |-> "goals"]

\* a first branch that takes the Nutrition stage's suggestions whenever
\* there are some
choose_pending_first(state, profile, pending) ==
    IF pending.has /\ pending.value # <<>>
    THEN [exc |-> "none", adjustments |-> pending.value, pending |-> Attr(<<>>),
          source |-> "pending"]
    ELSE IF truthy(profile) /\ profile.goals # <<>>
    THEN from_goals(_generate_goal_suggestions(state, profile), pending)
    ELSE [exc |-> "none", adjustments |-> state.adjustments, pending |-> pending,
          source |-> "none"]

\* the first branch: the adjustments and what becomes of
\* self._pending_suggestions; source says which branch ran
choose_adjustments(state, profile, pending) ==
    IF truthy(profile) /\ profile.goals # <<>>
    THEN from_goals(_generate_goal_suggestions(state, profile), pending)
    ELSE IF pending.has /\ pending.value # <<>>
    THEN [exc |-> "none", adjustments |-> pending.value, pending |-> Attr(<<>>),
          source |-> "pending"]
    ELSE [exc |-> "none", adjustments |-> state.adjustments, pending |-> pending,
          source |-> "none"]

\* a check that never finds a carb or glucose suggestion
no_carb_suggestion_seen(adjustments) == FALSE

has_carb_suggestion(adjustments) ==
    \E i \in 1..Len(adjustments) :
        \/ lower_contains(adjustments[i].reason, "carb")
        \/ lower_contains(adjustments[i].reason, "glucose")

\* the loop over the violations that may add the glycemic adjustment
RECURSIVE glycemic_loop(_, _, _, _)
glycemic_loop(violations, adjustments, foods, should_check_glycemic) ==
    IF violations = <<>> THEN adjustments
    ELSE glycemic_loop(Tail(violations),
            IF /\ lower_contains(Head(violations).text, "carbohydrate")
               /\ should_check_glycemic
               /\ ~has_carb_suggestion(adjustments)
               /\ first_food_over(foods, "carbohydrates", 20) # <<>>
            THEN LET food == foods[first_food_over(foods, "carbohydrates", 20)[1]]
                 IN  Append(adjustments,
                        MealAdjustment(food.name, "reduce",
                            "Consider reducing portion to manage blood glucose",
                            IF lower_contains(food.name, "rice") THEN "cauliflower rice" ELSE "None",
                            1))
            ELSE adjustments,
            foods, should_check_glycemic)

add_glycemic_adjustment(state, profile) ==
    IF state.constraint_violations # <<>> /\ truthy(profile)
    THEN [state EXCEPT !.adjustments =
            glycemic_loop(state.constraint_violations, state.adjustments, state.detected_foods,
                          has_glycemic_goal(profile) \/ has_diabetes(profile))]
    ELSE state

with_summary(scored) == [scored EXCEPT !.summary = _generate_summary(scored)]

score_and_summarize(state) ==
    with_summary([state EXCEPT !.overall_score = _calculate_meal_score(state)])

\* _act after its first branch
act_on(state, profile, pending, chosen) ==
    IF chosen.exc # "none"
    THEN [exc |-> chosen.exc, state |-> state, pending |-> pending, source |-> chosen.source]
    ELSE [exc |-> "none",
          state |-> score_and_summarize(
                        add_glycemic_adjustment(
                            [state EXCEPT !.adjustments = chosen.adjustments], profile)),
          pending |-> chosen.pending, source |-> chosen.source]

\* _act: the exception it raises, or the state it returns, and the
\* instance's _pending_suggestions afterwards
_act(state, profile, pending) ==
    act_on(state, profile, pending, choose_adjustments(state, profile, pending))

(***************************************************************************)
(* orchestrator.py: process, the except clause and the input check.        *)
(***************************************************************************)
\* bool(x) of an Optional bytes or str argument
given(x) == x # "None" /\ x # ""

\* the guard of the ValueError
invalid_input_if_either_missing(image_bytes, text_input) ==
    ~given(image_bytes) \/ ~given(text_input)

invalid_input(image_bytes, text_input) == ~given(image_bytes) /\ ~given(text_input)

\* an except clause that lets the exception go on to the caller
except_reraises(state, exc, elapsed) ==
    [state |-> state, escaped |-> exc]

\* an except clause that forgets the score
except_without_score(state, exc, elapsed) ==
    [state |-> [state EXCEPT !.summary = [kind |-> "analysis_failed", error |-> exc],
                             !.processing_time_ms = elapsed],
     escaped |-> "none"]

\* an except clause that wipes the outputs as the failure handler does
except_clears_outputs(state, exc, elapsed) ==
    [state |-> [_handle_extraction_failure(state, TRUE)
                    EXCEPT !.summary = [kind |-> "analysis_failed", error |-> exc],
                           !.processing_time_ms = elapsed],
     escaped |-> "none"]

\* except Exception as e: the state returned, and nothing escapes
process_except(state, exc, elapsed) ==
    [state |-> [state EXCEPT !.summary = [kind |-> "analysis_failed", error |-> exc],
                             !.overall_score = 0,
                             !.processing_time_ms = elapsed],
     escaped |-> "none"]

(***************************************************************************)
(* user_goals.py, goal_evaluator.py: the Goal Alignment Scorer.            *)
(*                                                                         *)
(* Scores are fractions; the model keeps them exact, as a numerator over   *)
(* a common denominator, and rounds where the code rounds.                 *)
(***************************************************************************)
\* DailyNutrientTargets(): the defaults, under the keys of target_map
target_map ==
    [ calories |-> 2000, protein |-> 50, carbs |-> 250, fat |-> 65, fiber |-> 25,
      sodium |-> 2300, sugar |-> 50 ]

\* a rule of GOAL_NUTRIENT_RULES; the weight in twentieths
Rule(nutrient, kind, percent, weight) ==
    [nutrient |-> nutrient, kind |-> kind, percent |-> percent, weight |-> weight]

GOAL_NUTRIENT_RULES ==
    [ weight_loss |->
        << Rule("calories", "max_percent", 90, 8), Rule("protein", "min_percent", 100, 6),
           Rule("fiber", "min_percent", 100, 4), Rule("sugar", "max_percent", 80, 2) >>,
      glycemic_control |->
        << Rule("sugar", "max_percent", 60, 8), Rule("carbs", "max_percent", 80, 6),
           Rule("fiber", "min_percent", 120, 4), Rule("protein", "min_percent", 100, 2) >>,
      lower_cholesterol |->
        << Rule("fiber", "min_percent", 120, 8), Rule("fat", "max_percent", 80, 6),
           Rule("sodium", "max_percent", 90, 4), Rule("protein", "min_percent", 90, 2) >>,
      heart_health |->
        << Rule("sodium", "max_percent", 70, 8), Rule("fiber", "min_percent", 100, 6),
           Rule("fat", "max_percent", 85, 4), Rule("sugar", "max_percent", 80, 2) >>,
      weight_gain |->
        << Rule("calories", "min_percent", 120, 8), Rule("protein", "min_percent", 130, 7),
           Rule("carbs", "min_percent", 110, 5) >>,
      muscle_building |->
        << Rule("protein", "min_percent", 150, 10), Rule("calories", "min_percent", 100, 6),
           Rule("carbs", "min_percent", 100, 4) >>,
      general_wellness |->
        << Rule("protein", "min_percent", 90, 5), Rule("fiber", "min_percent", 90, 5),
           Rule("sodium", "max_percent", 100, 5), Rule("sugar", "max_percent", 100, 5) >> ]

\* CONDITION_RESTRICTIONS: the entries _check_conditions reads
Restriction(sugar, sodium, carbs, avoid) ==
    [sugar_max_g |-> sugar, sodium_max_mg |-> sodium, carbs_max_g |-> carbs, avoid_foods |-> avoid]

CONDITION_RESTRICTIONS ==
    [ type_2_diabetes    |-> Restriction(25, None, 150, <<>>),
      type_1_diabetes    |-> Restriction(30, None, None, <<>>),
      hypertension       |-> Restriction(None, 1500, None, <<>>),
      high_cholesterol   |-> Restriction(None, None, None, <<>>),
      celiac_disease     |-> Restriction(None, None, None,
                                         <<"wheat", "barley", "rye", "bread", "pasta">>),
      lactose_intolerant |-> Restriction(None, None, None,
                                         <<"milk", "cheese", "yogurt", "ice cream">>),
      kidney_disease     |-> Restriction(None, 1500, None, <<>>) ]

\* a common multiple of the targets: the denominator of a rule's score
TARGETS_MULTIPLE == 598000

\* round(n / d) to the nearest integer.  The code rounds a binary float, in
\* which an exact tie is the exception; the model decides a tie of the exact
\* value for the even neighbour.
round_half_even(n, d) ==
    IF 2 * (n % d) > d THEN (n \div d) + 1
    ELSE IF 2 * (n % d) < d THEN n \div d
    ELSE IF (n \div d) % 2 = 0 THEN n \div d ELSE (n \div d) + 1

\* _extract_nutrients(meal_state)[name]
_extract_nutrients(meal_state, name) ==
    IF name = "carbs" /\ lowered_get(meal_state.total_nutrients, "carbohydrates", 0) > 0
    THEN lowered_get(meal_state.total_nutrients, "carbohydrates", 0)
    ELSE lowered_get(meal_state.total_nutrients, name, 0)

\* the score of one rule for an amount, as a numerator over the target
rule_score(rule, actual, target) ==
    IF rule.kind = "max_percent"
    THEN IF 100 * actual <= rule.percent * target THEN 100 * target
         ELSE Max({0, 100 * target - 2 * (100 * actual - rule.percent * target)})
    ELSE IF 100 * actual >= rule.percent * target THEN 100 * target
         ELSE Max({0, 100 * target - (rule.percent * target - 100 * actual)})

\* the feedback and the recommendation of a rule whose score is below 50
rule_feedback(goal, rule, actual, target) ==
    IF rule_score(rule, actual, target) < 50 * target
    THEN << [kind |-> rule.kind, goal |-> goal, nutrient |-> rule.nutrient,
             percent_of_target |-> round_half_even(100 * actual, target),
             limit |-> rule.percent] >>
    ELSE <<>>

rule_recommendation(goal, rule, actual, target) ==
    IF rule_score(rule, actual, target) < 50 * target
    THEN << [kind |-> IF rule.kind = "max_percent" THEN "Reduce" ELSE "Increase",
             nutrient |-> rule.nutrient, goal |-> goal] >>
    ELSE <<>>

\* the loop over the rules of a goal: total_score (over TARGETS_MULTIPLE),
\* total_weight, feedback and recommendations
RECURSIVE evaluate_rules(_, _, _)
evaluate_rules(goal, rules, meal_state) ==
    IF rules = <<>>
    THEN [total_score |-> 0, total_weight |-> 0, feedback |-> <<>>, recommendations |-> <<>>]
    ELSE LET rule   == Head(rules)
             target == target_map[rule.nutrient]
             actual == _extract_nutrients(meal_state, rule.nutrient)
             rest   == evaluate_rules(goal, Tail(rules), meal_state)
         IN  [total_score |->
                  rule.weight * rule_score(rule, actual, target) * (TARGETS_MULTIPLE \div target)
                  + rest.total_score,
              total_weight |-> rule.weight + rest.total_weight,
              feedback |-> rule_feedback(goal, rule, actual, target) \o rest.feedback,
              recommendations |->
                  rule_recommendation(goal, rule, actual, target) \o rest.recommendations]

\* round(final_score, 1), in tenths
rounded_final_score(total_score, total_weight) ==
    10 * (total_score \div (total_weight * TARGETS_MULTIPLE))
    + round_half_even(10 * (total_score % (total_weight * TARGETS_MULTIPLE)),
                      total_weight * TARGETS_MULTIPLE)

\* _evaluate_goal: the score in tenths, the feedback and the recommendations
goal_result(goal, sums) ==
    [score |-> rounded_final_score(sums.total_score, sums.total_weight),
     feedback |->
        IF /\ sums.total_score >= 80 * sums.total_weight * TARGETS_MULTIPLE
           /\ sums.feedback = <<>>
        THEN << [kind |-> "great_job", goal |-> goal] >>
        ELSE sums.feedback,
     recommendations |-> sums.recommendations]

_evaluate_goal(goal, meal_state) ==
    goal_result(goal, evaluate_rules(goal, GOAL_NUTRIENT_RULES[goal], meal_state))

\* the first food to avoid that a food's name contains, if any
avoided_in(food_name, avoid_foods) ==
    SelectSeq(avoid_foods, LAMBDA avoid : lower_contains(food_name, avoid))

\* the feedback of one condition
condition_feedback(condition, meal_state) ==
    IF condition = "none" THEN <<>>
    ELSE LET restrictions == CONDITION_RESTRICTIONS[condition]
             sugar  == _extract_nutrients(meal_state, "sugar")
             sodium == _extract_nutrients(meal_state, "sodium")
             carbs  == _extract_nutrients(meal_state, "carbs")
         IN  (IF restrictions.sugar_max_g # None /\ sugar > restrictions.sugar_max_g
              THEN << [kind |-> "exceeds", condition |-> condition, nutrient |-> "Sugar",
                       amount |-> sugar, limit |-> restrictions.sugar_max_g] >>
              ELSE <<>>)
          \o (IF restrictions.sodium_max_mg # None /\ sodium > restrictions.sodium_max_mg
              THEN << [kind |-> "exceeds", condition |-> condition, nutrient |-> "Sodium",
                       amount |-> sodium, limit |-> restrictions.sodium_max_mg] >>
              ELSE <<>>)
          \o (IF restrictions.carbs_max_g # None /\ carbs > restrictions.carbs_max_g
              THEN << [kind |-> "exceeds", condition |-> condition, nutrient |-> "Carbs",
                       amount |-> carbs, limit |-> restrictions.carbs_max_g] >>
              ELSE <<>>)
          \o (IF restrictions.avoid_foods # <<>>
              THEN LET unsuitable ==
                        SelectSeq(meal_state.detected_foods,
                                  LAMBDA f : avoided_in(f.name, restrictions.avoid_foods) # <<>>)
                   IN  [i \in 1..Len(unsuitable) |->
                          [kind |-> "unsuitable", condition |-> condition,
                           food |-> unsuitable[i].name,
                           contains |-> avoided_in(unsuitable[i].name,
                                                   restrictions.avoid_foods)[1]]]
              ELSE <<>>)

RECURSIVE _check_conditions(_, _)
_check_conditions(conditions, meal_state) ==
    IF conditions = <<>> THEN <<>>
    ELSE condition_feedback(Head(conditions), meal_state)
         \o _check_conditions(Tail(conditions), meal_state)

GoalEvaluation(alignment_score, goal_scores, feedback, recommendations) ==
    [kind |-> "GoalEvaluation", alignment_score |-> alignment_score,
     goal_scores |-> goal_scores, feedback |-> feedback, recommendations |-> recommendations]

\* the loop over profile.goals: the feedback, or the recommendations, of
\* all goals in order
RECURSIVE all_goals(_, _, _)
all_goals(goals, meal_state, field) ==
    IF goals = <<>> THEN <<>>
    ELSE _evaluate_goal(Head(goals), meal_state)[field]
         \o all_goals(Tail(goals), meal_state, field)

\* goal_scores: a dict keyed by the goal, so a goal listed twice has one entry
goal_scores_of(goals, meal_state) ==
    [goal \in {goals[i] : i \in 1..Len(goals)} |-> _evaluate_goal(goal, meal_state).score]

\* sum(goal_scores.values()) over the keys given
RECURSIVE sum_scores(_, _)
sum_scores(goal_scores, keys) ==
    IF keys = {} THEN 0
    ELSE LET goal == CHOOSE g \in keys : TRUE
         IN  goal_scores[goal] + sum_scores(goal_scores, keys \ {goal})

\* round(sum(goal_scores.values()) / len(goal_scores), 1), in tenths
alignment_of(goal_scores) ==
    round_half_even(sum_scores(goal_scores, DOMAIN goal_scores),
                    Cardinality(DOMAIN goal_scores))

\* the score 50.0, in tenths
NEUTRAL_SCORE == 500

\* the empty dict
NoScores == [goal \in {} |-> 0]

\* the answer to a profile without goals, with an empty feedback list
no_goals_answer_without_hint == GoalEvaluation(NEUTRAL_SCORE, NoScores, <<>>, <<>>)

no_goals_answer ==
    GoalEvaluation(NEUTRAL_SCORE, NoScores, << [kind |-> "setup_hint"] >>, <<>>)

MAX_FEEDBACK == 5
MAX_RECOMMENDATIONS == 3

\* GoalEvaluator.process((meal_state, profile))
GoalEvaluator_process(meal_state, profile) ==
    IF ~truthy(profile) \/ profile.goals = <<>>
    THEN no_goals_answer
    ELSE GoalEvaluation(
            alignment_of(goal_scores_of(profile.goals, meal_state)),
            goal_scores_of(profile.goals, meal_state),
            take(all_goals(profile.goals, meal_state, "feedback")
                    \o _check_conditions(profile.conditions, meal_state), MAX_FEEDBACK),
            take(all_goals(profile.goals, meal_state, "recommendations"),
                 MAX_RECOMMENDATIONS))


\* the number of characters of a whole number printed with :.0f
digits(n) ==
    IF n < 10 THEN 1 ELSE IF n < 100 THEN 2 ELSE IF n < 1000 THEN 3
    ELSE IF n < 10000 THEN 4 ELSE 5

\* len() of the text of a feedback item or a recommendation: the characters
\* of the f-string's literal parts, as the source file spells them, plus
\* those of the values put in (a goal's or a condition's value keeps its
\* length through replace('_', ' ') and title())
text_length(item) ==
    CASE item.kind = "max_percent" ->
            9 + Len(Chars[item.goal]) + Len(Chars[item.nutrient]) + 16
              + digits(item.percent_of_target) + 12 + digits(item.limit)
      [] item.kind = "min_percent" ->
            7 + Len(Chars[item.goal]) + Len(Chars[item.nutrient]) + 16
              + digits(item.percent_of_target) + 12 + digits(item.limit)
      [] item.kind = "great_job" -> 47 + Len(Chars[item.goal]) + 6
      [] item.kind = "exceeds" ->
            9 + Len(Chars[item.condition])
              + (IF item.nutrient = "Sodium" THEN 36 + 4 ELSE 34 + 3)
              + digits(item.amount) + digits(item.limit)
      [] item.kind = "unsuitable" ->
            7 + Len(Chars[item.condition]) + 34 + Len(Chars[item.food])
              + Len(Chars[item.contains])
      [] item.kind = "Reduce" -> 29 + Len(Chars[item.nutrient]) + Len(Chars[item.goal])
      [] item.kind = "Increase" -> 31 + Len(Chars[item.nutrient]) + Len(Chars[item.goal])
      [] item.kind = "setup_hint" -> 54
(***************************************************************************)
(* The state machine.                                                      *)
(*                                                                         *)
(* One StudioOrchestrator instance serves the runs of process() in the     *)
(* slots Runs.  A run is suspended only where it awaits an agent's         *)
(* execute(); the code between two awaits is one step.                     *)
(***************************************************************************)
VARIABLES
    pc,                     \* pc[r]: where run r is
    inp,                    \* inp[r]: the arguments of run r's call
    state,                  \* state[r]: the MealState of run r
    local,                  \* local[r]: the variable `profile` of run r's _think
    _current_profile,       \* self._current_profile
    _pending_suggestions,   \* self._pending_suggestions
    hist,                   \* hist[r]: what happened in run r (history only)
    pending_owner,          \* the run that stored _pending_suggestions (history only)
    _profiles,              \* InMemoryStorage._profiles: user id -> profile
    _meal_logs,             \* InMemoryStorage._meal_logs: user id -> the meals logged
    call                    \* a direct call of one method: its arguments and what it returned

vars == <<pc, inp, state, local, _current_profile, _pending_suggestions, hist, pending_owner,
          _profiles, _meal_logs, call>>

Unused == [kind |-> "unused"]

\* a dictionary without keys
NoEntries == [user_id \in {} |-> Unused]

\* no method is called directly
NoDirectCall == [fn |-> "none", state |-> NoneRec, profile |-> NoneRec, text |-> "None",
                 pending |-> NoAttr, returned |-> FALSE, ret |-> Unused]

NoCall == [image_bytes |-> "None", text_input |-> "None", user_profile |-> NoneRec]

NoHistory ==
    [ log |-> <<>>, observed |-> NoneRec, gate |-> "none",
      vision |-> "none", biodata |-> "none", nutri |-> "none",
      reported |-> Unused, audit_request |-> Unused,
      caught |-> "none", escaped |-> "none",
      think_profile |-> Unused, act_profile |-> Unused,
      act_source |-> "none", act_pending_owner |-> 0 ]

\* the arguments of process() the model calls it with

Inputs ==
    { [image_bytes |-> "None", text_input |-> "None"],
      [image_bytes |-> "",     text_input |-> ""],
      [image_bytes |-> "None", text_input |-> ""],
      [image_bytes |-> "JPEG", text_input |-> "None"],
      [image_bytes |-> "JPEG", text_input |-> "xyz"],
      [image_bytes |-> "",     text_input |-> "xyz"],
      [image_bytes |-> "None", text_input |-> "Brown rice"],
      [image_bytes |-> "None", text_input |-> "egg and toast"],
      [image_bytes |-> "None", text_input |-> "xyz"] }

Profiles ==
    { NoneRec,
      UserProfile(<<>>, <<>>),
      UserProfile(<<"weight_loss">>, <<>>),
      UserProfile(<<"glycemic_control">>, <<>>),
      UserProfile(<<>>, <<"type_2_diabetes">>),
      UserProfile(<<>>, <<"type_1_diabetes">>),
      UserProfile(<<>>, <<"hypertension">>),
      UserProfile(<<"weight_loss">>, <<"type_2_diabetes">>) }

NutriOutcomeKinds == NutritionSources \cup {"raise"}

\* the narrower choices of the specification of concurrent runs
ConcInputs == { [image_bytes |-> "JPEG", text_input |-> "None"] }
ConcProfiles == { NoneRec, UserProfile(<<"glycemic_control">>, <<>>) }
ConcVisionOutcomes == { Return("mock", _get_mock_output) }
ConcBioDataOutcomes ==
    { Return("report", BioDataReport(scout_constraints("warning", "warning", <<>>))) }
ConcNutriOutcomeKinds == {"typical", "raise"}

ElapsedValues == 0..MaxElapsedMs

USER_ID == "demo_user"

Init ==
    /\ pc = [r \in Runs |-> "idle"]
    /\ inp = [r \in Runs |-> NoCall]
    /\ state = [r \in Runs |-> NoneRec]
    /\ local = [r \in Runs |-> NoneRec]
    /\ _current_profile = NoneRec
    /\ _pending_suggestions = NoAttr
    /\ hist = [r \in Runs |-> NoHistory]
    /\ pending_owner = 0
    /\ _profiles = NoEntries
    /\ _meal_logs = NoEntries
    /\ call = NoDirectCall

\* state.agent_calls after each phase
record_think_swapped(agent_calls) == agent_calls \o <<"NutriAuditor", "BioDataScout">>

record_observe(agent_calls) == Append(agent_calls, "VisionAnalyst")
record_think(agent_calls) == agent_calls \o <<"BioDataScout", "NutriAuditor">>
record_act(agent_calls) == Append(agent_calls, "Orchestrator.act")

\* n entries of event e in the history
Times(e, n) == [i \in 1..n |-> e]

\* process(), from the return of _observe to the next await or the return:
\* the gate, and either the failure return or the start of _think, which
\* reads self._current_profile before it awaits the Constraint stage
after_observe(r, observed_state, h, is_image, current_profile) ==
    LET st == [observed_state EXCEPT !.agent_calls = record_observe(@)]
        h1 == [h EXCEPT !.observed = [ kind       |-> "observed",
                                       foods      |-> Len(st.detected_foods),
                                       confidence |-> st.image_analysis_confidence,
                                       is_image   |-> is_image ]]
    IN  IF _is_extraction_failed(st, is_image)
        THEN \E t \in ElapsedValues :
                /\ state' = [state EXCEPT ![r] =
                                [_handle_extraction_failure(st, is_image)
                                    EXCEPT !.processing_time_ms = t]]
                /\ pc' = [pc EXCEPT ![r] = "done"]
                /\ hist' = [hist EXCEPT ![r] =
                                [h1 EXCEPT !.gate = "failed", !.log = @ \o <<"return">>]]
                /\ UNCHANGED local
        ELSE /\ state' = [state EXCEPT ![r] = st]
             /\ pc' = [pc EXCEPT ![r] = "biodata"]
             /\ local' = [local EXCEPT ![r] = current_profile]
             /\ hist' = [hist EXCEPT ![r] =
                            [h1 EXCEPT !.gate = "passed", !.think_profile = current_profile,
                                       !.log = @ \o <<"think", "BioDataScout.execute">>]]

\* process() is called: the input check, the new MealState, the profile
\* stored on the instance, and _observe up to its await (an image) or
\* through the gate (a text)
process_begin(r, inputs, profiles) ==
    /\ pc[r] = "idle"
    /\ \E in \in inputs, p \in profiles :
        /\ inp' = [inp EXCEPT ![r] = [image_bytes |-> in.image_bytes,
                                      text_input |-> in.text_input, user_profile |-> p]]
        /\ UNCHANGED <<_profiles, _meal_logs, call>>
        /\ IF invalid_input(in.image_bytes, in.text_input)
           THEN /\ pc' = [pc EXCEPT ![r] = "raised"]
                /\ hist' = [hist EXCEPT ![r] = [NoHistory EXCEPT !.escaped = "ValueError"]]
                /\ UNCHANGED <<state, local, _current_profile, _pending_suggestions,
                               pending_owner>>
           ELSE /\ _current_profile' = p
                /\ UNCHANGED <<_pending_suggestions, pending_owner>>
                /\ IF given(in.image_bytes)
                   THEN /\ pc' = [pc EXCEPT ![r] = "vision"]
                        /\ state' = [state EXCEPT ![r] = MealState(USER_ID)]
                        /\ hist' = [hist EXCEPT ![r] =
                                [NoHistory EXCEPT !.log = <<"observe", "VisionAnalyst.execute">>]]
                        /\ UNCHANGED local
                   ELSE after_observe(r, _parse_text_input(MealState(USER_ID), in.text_input),
                                      [NoHistory EXCEPT !.log = <<"observe">>],
                                      in.image_bytes # "None", p)

\* _observe without the fallback to the mock foods
observe_without_fallback(st, result) ==
    IF result.success /\ truthy(result.output)
    THEN [st EXCEPT !.detected_foods = result.output.foods,
                    !.image_analysis_confidence = result.output.overall_confidence,
                    !.raw_ocr_text = result.output.ocr_text]
    ELSE st

\* _observe after the await of vision_analyst.execute
observe_result(st, result) ==
    IF result.success /\ truthy(result.output)
    THEN [st EXCEPT !.detected_foods = result.output.foods,
                    !.image_analysis_confidence = result.output.overall_confidence,
                    !.raw_ocr_text = result.output.ocr_text]
    ELSE _add_mock_foods(st)

\* the Perception stage answers
vision_return(r, outcomes) ==
    /\ pc[r] = "vision"
    /\ \E outcome \in outcomes :
        LET result == execute("VisionAnalyst", outcome)
        IN  after_observe(r, observe_result(state[r], result),
                          [hist[r] EXCEPT !.vision = outcome.how,
                                          !.log = @ \o Times("VisionAnalyst.process", result.attempts)],
                          inp[r].image_bytes # "None", _current_profile)
    /\ UNCHANGED <<inp, _current_profile, _pending_suggestions, pending_owner,
                   _profiles, _meal_logs, call>>

\* _think after the await of biodata_scout.execute: the state
biodata_result_stored(st, biodata_result, profile) ==
    IF biodata_result.success /\ truthy(biodata_result.output)
    THEN [st EXCEPT !.health_constraints =
            filter_constraints(biodata_result.output.constraints, profile)]
    ELSE st

\* the Constraint stage answers: the filter, and the audit request, built
\* from the state's constraints, is sent
biodata_return(r, outcomes) ==
    /\ pc[r] = "biodata"
    /\ \E outcome \in outcomes :
        \E biodata_result \in {execute("BioDataScout", outcome)} :
        \E st \in {biodata_result_stored(state[r], biodata_result, local[r])} :
            /\ state' = [state EXCEPT ![r] = st]
            /\ hist' = [hist EXCEPT ![r].biodata = outcome.how,
                                    ![r].reported = outcome.output,
                                    ![r].audit_request = [foods |-> st.detected_foods,
                                                          user_constraints |-> st.health_constraints],
                                    ![r].log = @ \o Times("BioDataScout.process", biodata_result.attempts)
                                                 \o <<"NutriAuditor.execute">>]
    /\ pc' = [pc EXCEPT ![r] = "nutri"]
    /\ UNCHANGED <<inp, local, _current_profile, _pending_suggestions, pending_owner,
                   _profiles, _meal_logs, call>>

\* the outcome of NutriAuditor.process on a request
nutri_outcome(kind, foods, user_constraints) ==
    IF kind = "raise" THEN Raise("raise")
    ELSE Return(kind, NutriAuditor_process(foods, user_constraints, kind))

\* _think after the await of nutri_auditor.execute: the state, and the
\* instance's _pending_suggestions with the run that stored them
think_result(r, st, audit_result, pending, owner) ==
    IF audit_result.success /\ truthy(audit_result.output)
    THEN [state   |-> [store_audit(st, audit_result.output) EXCEPT !.agent_calls = record_think(@)],
          pending |-> Attr(audit_result.output.suggestions),
          owner   |-> r]
    ELSE [state   |-> [st EXCEPT !.agent_calls = record_think(@)],
          pending |-> pending,
          owner   |-> owner]

\* process() from the call of _act to its end: what it returns or raises
act_result(thought, acted, elapsed) ==
    IF acted.exc = "none"
    THEN [state   |-> [acted.state EXCEPT !.agent_calls = record_act(@),
                                          !.processing_time_ms = elapsed],
          caught  |-> "none",
          escaped |-> "none"]
    ELSE [state   |-> process_except(thought.state, acted.exc, elapsed).state,
          caught  |-> acted.exc,
          escaped |-> process_except(thought.state, acted.exc, elapsed).escaped]

\* the rest of process() once the Nutrition stage has answered
tail_of(thought, acted, elapsed) ==
    [thought |-> thought, acted |-> acted, final |-> act_result(thought, acted, elapsed)]

process_tail(thought, profile, elapsed) ==
    tail_of(thought, _act(thought.state, profile, thought.pending), elapsed)

\* the Nutrition stage answers: the rest of _think, _act (which awaits
\* nothing) and the return of process(), through the except clause if _act
\* raised
nutri_return(r, kinds) ==
    /\ pc[r] = "nutri"
    /\ \E kind \in kinds, t \in ElapsedValues :
        \E audit_result \in
                {execute("NutriAuditor",
                         nutri_outcome(kind, state[r].detected_foods, state[r].health_constraints))} :
        \E tail \in {process_tail(think_result(r, state[r], audit_result,
                                                  _pending_suggestions, pending_owner),
                                  _current_profile, t)} :
            /\ _pending_suggestions' = tail.acted.pending
            /\ pending_owner' = tail.thought.owner
            /\ state' = [state EXCEPT ![r] = tail.final.state]
            /\ pc' = [pc EXCEPT ![r] = IF tail.final.escaped = "none" THEN "done" ELSE "raised"]
            /\ hist' = [hist EXCEPT ![r] =
                    [@ EXCEPT
                        !.nutri = IF kind = "raise" THEN "raise" ELSE kind,
                        !.act_profile = _current_profile,
                        !.act_source = tail.acted.source,
                        !.act_pending_owner =
                            IF tail.acted.source = "pending" THEN tail.thought.owner ELSE 0,
                        !.caught = tail.final.caught,
                        !.escaped = tail.final.escaped,
                        !.log = @ \o Times("NutriAuditor.process", audit_result.attempts)
                                  \o <<"act">>
                                  \o (IF tail.final.caught = "none" THEN <<>> ELSE <<"except">>)
                                  \o (IF tail.final.escaped = "none" THEN <<"return">> ELSE <<>>)]]
    /\ UNCHANGED <<inp, local, _current_profile, _profiles, _meal_logs, call>>

\* the caller is done with what process() returned or raised.  The API
\* (main.py, analyze_meal) makes a StudioOrchestrator for each request, so
\* the next request starts on a fresh instance; a caller that keeps the
\* instance frees the slot for the next call on it.
release(r, fresh_instance) ==
    /\ pc[r] \in {"done", "raised"}
    /\ pc' = [pc EXCEPT ![r] = "idle"]
    /\ inp' = [inp EXCEPT ![r] = NoCall]
    /\ state' = [state EXCEPT ![r] = NoneRec]
    /\ local' = [local EXCEPT ![r] = NoneRec]
    /\ hist' = [hist EXCEPT ![r] = NoHistory]
    /\ UNCHANGED <<_profiles, _meal_logs, call>>
    /\ IF fresh_instance
       THEN /\ _current_profile' = NoneRec
            /\ _pending_suggestions' = NoAttr
            /\ pending_owner' = 0
       ELSE /\ pending_owner' = IF pending_owner = r THEN 0 ELSE pending_owner
            /\ UNCHANGED <<_current_profile, _pending_suggestions>>

\* one request at a time, each on its own instance, with every input and
\* every answer of the model
Next ==
    \/ process_begin(1, Inputs, Profiles)
    \/ vision_return(1, VisionOutcomes)
    \/ biodata_return(1, BioDataOutcomes)
    \/ nutri_return(1, NutriOutcomeKinds)
    \/ release(1, TRUE)

Spec == Init /\ [][Next]_vars

\* calls in flight together on the one instance
ConcNext ==
    \E r \in Runs :
        \/ process_begin(r, ConcInputs, ConcProfiles)
        \/ vision_return(r, ConcVisionOutcomes)
        \/ biodata_return(r, ConcBioDataOutcomes)
        \/ nutri_return(r, ConcNutriOutcomeKinds)
        \/ release(r, FALSE)

ConcSpec == Init /\ [][ConcNext]_vars


\* the choices of the specification of runs made one after another on one
\* instance
SeqInputs ==
    { [image_bytes |-> "JPEG", text_input |-> "None"],
      [image_bytes |-> "None", text_input |-> "egg and toast"] }
SeqProfiles ==
    { NoneRec, UserProfile(<<>>, <<>>), UserProfile(<<"weight_loss">>, <<>>),
      UserProfile(<<"glycemic_control">>, <<>>) }
SeqBioDataOutcomes ==
    { Return("report", BioDataReport(scout_constraints("warning", "warning", <<>>))),
      Return("report", BioDataReport(scout_constraints("critical", "warning", <<>>))) }
SeqNutriOutcomeKinds == {"typical", "rich", "raise"}

\* a caller that keeps its orchestrator and awaits each call before it makes
\* the next
SeqNext ==
    \/ process_begin(1, SeqInputs, SeqProfiles)
    \/ vision_return(1, ConcVisionOutcomes)
    \/ biodata_return(1, SeqBioDataOutcomes)
    \/ nutri_return(1, SeqNutriOutcomeKinds)
    \/ release(1, FALSE)

SeqSpec == Init /\ [][SeqNext]_vars

(***************************************************************************)
(* Direct calls of single methods.                                         *)
(*                                                                         *)
(* A method that computes its result from its arguments alone is called    *)
(* on arguments drawn from the sets below, as a unit test calls it.        *)
(***************************************************************************)
\* the longest goal list of a profile in a direct call
MaxGoals == 2

\* the members of the HealthGoal enum
HealthGoal ==
    {"weight_loss", "weight_gain", "muscle_building", "glycemic_control",
     "heart_health", "lower_cholesterol", "general_wellness"}

\* profile.goals is a list: order and repetition are the caller's
GoalLists == UNION {[1..n -> HealthGoal] : n \in 0..MaxGoals}

\* a detected food as the Nutrition stage leaves it
Enriched(name, grams, nutrients) == [FoodItem(name, grams, 70) EXCEPT !.nutrients = nutrients]

\* detected foods: none; none with more than 200 kcal of its own; the
\* second and the third with more than 200 kcal
RuleFoods ==
    { <<>>,
      << Enriched("steamed broccoli", 100, Nutrients(34, 3, 7, 0, 7, 33, 2)),
         Enriched("avocado", 125, Nutrients(200, 2, 9, 15, 7, 7, 1)) >>,
      << Enriched("steamed broccoli", 100, Nutrients(34, 3, 7, 0, 7, 33, 2)),
         Enriched("white rice", 200, Nutrients(260, 5, 56, 1, 1, 2, 0)),
         Enriched("grilled chicken breast", 150, Nutrients(250, 46, 0, 5, 0, 110, 0)) >> }

\* nutrient totals on both sides of the rules' thresholds
RuleTotals ==
    { Nutrients(cal, pro, 30, 10, fib, 300, 5) :
        cal \in {600, 601, 700}, pro \in {20, 24, 25}, fib \in {3, 4, 5} }
    \cup { <<>>,
           << NutrientInfo("calories", 700), NutrientInfo("protein", 20),
              NutrientInfo("fiber", 3) >>,
           Nutrients(300, 10, 60, 30, 2, 900, 25),
           Nutrients(900, 45, 60, 30, 9, 900, 25) }

\* the state _act hands to the rule engine
RuleStates ==
    { [MealState(USER_ID) EXCEPT !.detected_foods = foods, !.total_nutrients = totals] :
        foods \in RuleFoods, totals \in RuleTotals }

DirectCall(fn, st, profile, text) ==
    [fn |-> fn, state |-> st, profile |-> profile, text |-> text,
     pending |-> NoAttr, returned |-> FALSE, ret |-> Unused]

RuleCalls ==
    { DirectCall("_generate_goal_suggestions", st, UserProfile(goals, <<>>), "None") :
        st \in RuleStates, goals \in GoalLists }

\* texts for _parse_text_input: phrases that overlap longer ones, a phrase
\* twice, more phrases than the cap, capitals, and no phrase at all
ParseTexts ==
    { "grilled chicken breast with rice and broccoli", "Grilled Chicken Soup",
      "grilled chicken and chicken", "egg toast rice tuna corn milk soup pho",
      "steamed broccoli and scrambled eggs", "scrambled eggs and two boiled eggs",
      "Brown rice", "egg and toast", "xyz" }

ParseCalls ==
    { DirectCall("_parse_text_input", MealState(USER_ID), NoneRec, text) : text \in ParseTexts }

\* the most violations of a state in a direct call
MaxViolations == 8

\* protein totals on both sides of every tier
ProteinValues == {0, 9, 10, 15, 19, 20, 25, 29, 30, 45}

\* states for _calculate_meal_score: totals around the tiers, no, one or
\* many serious violations with one soft warning, no, three or four foods
ScoreStates ==
    { [MealState(USER_ID) EXCEPT
            !.detected_foods = take(<< FoodItem("grilled chicken breast", 150, 90),
                                       FoodItem("white rice", 200, 80),
                                       FoodItem("steamed broccoli", 100, 85),
                                       FoodItem("avocado", 100, 70) >>, nfoods),
            !.total_nutrients = Nutrients(500, protein, 30, 10, fiber, sodium, 5),
            !.constraint_violations =
                [i \in 1..nviolations |->
                    Message("High sodium meal (#mg) - limit of 600mg recommended", sodium, FALSE)]
                \o << Message("Moderate sugar (#g) - monitor blood glucose", 5, TRUE) >>] :
        protein \in ProteinValues, fiber \in {0, 5, 8}, sodium \in {0, 801, 1001},
        nviolations \in {0, 1, MaxViolations}, nfoods \in {0, 3, 4} }

\* states whose detected foods name a food more than once, as a Perception
\* answer may list it: three items of two foods, four items of three foods
RepeatedFoodStates ==
    { [MealState(USER_ID) EXCEPT
            !.detected_foods = foods,
            !.total_nutrients = Nutrients(500, protein, 30, 10, 5, 300, 5)] :
        protein \in {15, 30},
        foods \in { << FoodItem("white rice", 200, 80), FoodItem("white rice", 150, 75),
                       FoodItem("grilled chicken breast", 150, 90) >>,
                    << FoodItem("white rice", 200, 80), FoodItem("steamed broccoli", 100, 85),
                       FoodItem("white rice", 150, 75),
                       FoodItem("grilled chicken breast", 150, 90) >> } }

ScoreCalls ==
    { DirectCall("_calculate_meal_score", st, NoneRec, "None") :
        st \in ScoreStates \cup RepeatedFoodStates }

\* meals for the Goal Alignment Scorer: nothing, a light meal with bread, a
\* meal far above the targets
EvalStates ==
    { MealState(USER_ID),
      [MealState(USER_ID) EXCEPT
            !.detected_foods = << Enriched("garlic bread", 50, Nutrients(700, 20, 30, 10, 3, 300, 5)) >>,
            !.total_nutrients = Nutrients(700, 20, 30, 10, 3, 300, 5)],
      [MealState(USER_ID) EXCEPT
            !.detected_foods = << Enriched("cheese pizza", 300, Nutrients(2600, 80, 300, 70, 32, 2500, 60)),
                                  Enriched("milkshake", 350, <<>>) >>,
            !.total_nutrients = Nutrients(2600, 80, 300, 70, 32, 2500, 60)] }

\* profile.conditions in a direct call
EvalConditions == { <<>>, <<"type_2_diabetes", "celiac_disease">>, <<"lactose_intolerant", "none">> }

EvalCalls ==
    { DirectCall("GoalEvaluator.process", st, profile, "None") :
        st \in EvalStates,
        profile \in {NoneRec} \cup {UserProfile(goals, conditions) :
                                      goals \in GoalLists, conditions \in EvalConditions} }

\* detected foods for _act: none; none with more than 20 g carbohydrate;
\* the second the first with more, a rice; the first with more, no rice
ActFoods ==
    { <<>>,
      << Enriched("toast", 60, Nutrients(180, 8, 19, 6, 1, 300, 9)),
         Enriched("egg", 50, Nutrients(180, 8, 20, 6, 1, 300, 9)) >>,
      << Enriched("steamed broccoli", 100, Nutrients(34, 3, 7, 0, 7, 33, 2)),
         Enriched("white rice", 200, Nutrients(260, 5, 56, 1, 1, 2, 0)),
         Enriched("pasta", 200, Nutrients(260, 9, 50, 2, 3, 2, 16)) >>,
      << Enriched("garlic bread", 50, Nutrients(175, 4, 21, 8, 1, 250, 2)),
         Enriched("Brown rice", 150, Nutrients(260, 5, 56, 1, 1, 2, 0)) >> }

\* the constraints Think stored: the default query with a normal, an
\* elevated and a low glucose reading, and a report with two glucose
\* readings
ActConstraints ==
    { scout_constraints("normal", "normal", <<>>),
      scout_constraints("warning", "warning", <<>>),
      scout_constraints("critical", "normal", <<>>),
      << HealthConstraint("blood_glucose", "warning"),
         HealthConstraint("blood_glucose", "critical") >> }

ActProfiles ==
    { NoneRec,
      UserProfile(<<>>, <<>>),
      UserProfile(<<>>, <<"type_2_diabetes">>),
      UserProfile(<<>>, <<"type_1_diabetes">>),
      UserProfile(<<"glycemic_control">>, <<>>),
      UserProfile(<<"weight_gain">>, <<"type_2_diabetes">>),
      UserProfile(<<"muscle_building">>, <<"hypertension">>) }

\* the state and self._pending_suggestions as _think leaves them when the
\* Nutrition stage has audited the foods against the constraints
thought_call(profile, foods, constraints, audit_output) ==
    [DirectCall("_act",
                store_audit([MealState(USER_ID) EXCEPT !.detected_foods = foods,
                                                       !.health_constraints = constraints],
                            audit_output),
                profile, "None")
        EXCEPT !.pending = Attr(audit_output.suggestions)]

audit_report(foods, constraints, checked) ==
    NutriAuditReport(_calculate_totals(foods), checked[1], checked[2],
                     _generate_suggestions(foods, checked[1]), foods)

ActCalls ==
    { thought_call(profile, foods, constraints,
                   audit_report(foods, constraints,
                                _check_constraints(_calculate_totals(foods), constraints))) :
        foods \in ActFoods, constraints \in ActConstraints, profile \in ActProfiles }

DirectCalls == RuleCalls \cup ParseCalls \cup ScoreCalls \cup EvalCalls \cup ActCalls

DirectInit ==
    /\ pc = [r \in Runs |-> "idle"]
    /\ inp = [r \in Runs |-> NoCall]
    /\ state = [r \in Runs |-> NoneRec]
    /\ local = [r \in Runs |-> NoneRec]
    /\ _current_profile = NoneRec
    /\ _pending_suggestions = NoAttr
    /\ hist = [r \in Runs |-> NoHistory]
    /\ pending_owner = 0
    /\ _profiles = NoEntries
    /\ _meal_logs = NoEntries
    /\ call \in DirectCalls

\* the method returns (or raises)
returns(fn, result) ==
    /\ call.fn = fn
    /\ ~call.returned
    /\ call' = [call EXCEPT !.returned = TRUE, !.ret = result]
    /\ UNCHANGED <<pc, inp, state, local, _current_profile, _pending_suggestions, hist,
                   pending_owner, _profiles, _meal_logs>>

call_generate_goal_suggestions ==
    returns("_generate_goal_suggestions", _generate_goal_suggestions(call.state, call.profile))

call_parse_text_input ==
    returns("_parse_text_input", _parse_text_input(call.state, call.text))

call_calculate_meal_score ==
    returns("_calculate_meal_score", _calculate_meal_score(call.state))

call_goal_evaluator_process ==
    returns("GoalEvaluator.process", GoalEvaluator_process(call.state, call.profile))

call_act ==
    returns("_act", _act(call.state, call.profile, call.pending))

DirectNext ==
    \/ call_act
    \/ call_generate_goal_suggestions
    \/ call_goal_evaluator_process
    \/ call_calculate_meal_score
    \/ call_parse_text_input

DirectSpec == DirectInit /\ [][DirectNext]_vars

(***************************************************************************)
(* storage.py: InMemoryStorage, the one store of profiles and logged meals *)
(* behind the API.  Its methods are called one at a time.                  *)
(***************************************************************************)
Users == {"demo_user", "guest"}

\* datetime.utcnow().date(), as a day number
Today == 100

MaxMeals == 2

DEFAULT_DAYS == 30
DEFAULT_LIMIT == 50
RECENT_MEALS == 10

\* MealLogEntry: the fields the storage reads
MealLogEntry(user_id, timestamp, meal_score) ==
    [user_id |-> user_id, timestamp |-> timestamp, meal_score |-> meal_score]

\* the entries the model logs: a meal of today and one older than the
\* default range of the history
LoggedMeals(user_id) ==
    { MealLogEntry(user_id, Today, 85), MealLogEntry(user_id, Today - 40, 60) }

\* the profiles the model saves
SavedProfiles == { UserProfile(<<>>, <<>>), UserProfile(<<"weight_loss">>, <<>>) }

HistoryLimits == {1, DEFAULT_LIMIT}

\* d[key] = value
setitem(d, key, value) ==
    [k \in DOMAIN d \cup {key} |-> IF k = key THEN value ELSE d[k]]

\* del d[key]
delitem(d, key) == [k \in DOMAIN d \ {key} |-> d[k]]

\* defaultdict(list): reading a missing key stores an empty list under it;
\* the dictionary after d[key]
getitem(d, key) == IF key \in DOMAIN d THEN d ELSE setitem(d, key, <<>>)

\* the list read by d[key] of the defaultdict
meals_of(d, key) == IF key \in DOMAIN d THEN d[key] ELSE <<>>

\* list.sort(key=timestamp, reverse=True): newest first, equal timestamps
\* in their old order
RECURSIVE newest_first(_)
newest_first(meals) ==
    IF meals = <<>> THEN <<>>
    ELSE LET m == Head(meals)
             rest == newest_first(Tail(meals))
         IN  SelectSeq(rest, LAMBDA x : x.timestamp > m.timestamp)
             \o <<m>>
             \o SelectSeq(rest, LAMBDA x : x.timestamp <= m.timestamp)

\* seq[:n]
first_n(seq, n) == SubSeq(seq, 1, IF n < Len(seq) THEN n ELSE Len(seq))

\* sum(m.meal_score for m in meals)
RECURSIVE sum_meal_score(_)
sum_meal_score(meals) ==
    IF meals = <<>> THEN 0 ELSE Head(meals).meal_score + sum_meal_score(Tail(meals))

\* what the storage held for the user before a call (history only)
held(profiles, logs, user_id) ==
    [profile |-> user_id \in DOMAIN profiles,
     meals   |-> Len(meals_of(logs, user_id)),
     keyed   |-> user_id \in DOMAIN logs]

\* a storage method was called and has returned
storage_call(fn, user_id, ret) ==
    /\ call' = [fn |-> fn, user_id |-> user_id, returned |-> TRUE, ret |-> ret,
                before |-> held(_profiles, _meal_logs, user_id)]
    /\ UNCHANGED <<pc, inp, state, local, _current_profile, _pending_suggestions, hist,
                   pending_owner>>

save_profile ==
    \E user_id \in Users, profile \in SavedProfiles :
        \E saved \in {[user_id |-> user_id, updated_at |-> Today] @@ profile} :
            /\ _profiles' = setitem(_profiles, user_id, saved)
            /\ UNCHANGED _meal_logs
            /\ storage_call("save_profile", user_id, saved)

log_meal ==
    \E user_id \in Users :
        \E entry \in LoggedMeals(user_id) :
            /\ Len(meals_of(_meal_logs, user_id)) < MaxMeals
            /\ _meal_logs' = setitem(_meal_logs, user_id,
                                     Append(meals_of(_meal_logs, user_id), entry))
            /\ UNCHANGED _profiles
            /\ storage_call("log_meal", user_id, entry)

\* the meals not older than the cutoff, newest first, at most limit of them
meal_history(meals, days, limit) ==
    first_n(newest_first(SelectSeq(meals, LAMBDA m : m.timestamp >= Today - days)), limit)

get_meal_history ==
    \E user_id \in Users, limit \in HistoryLimits :
        /\ _meal_logs' = getitem(_meal_logs, user_id)
        /\ UNCHANGED _profiles
        /\ storage_call("get_meal_history", user_id,
                        meal_history(meals_of(_meal_logs, user_id), DEFAULT_DAYS, limit))

get_meals_today ==
    \E user_id \in Users :
        /\ _meal_logs' = getitem(_meal_logs, user_id)
        /\ UNCHANGED _profiles
        /\ storage_call("get_meals_today", user_id,
                        SelectSeq(meals_of(_meal_logs, user_id),
                                  LAMBDA m : m.timestamp = Today))

get_total_meals ==
    \E user_id \in Users :
        /\ _meal_logs' = getitem(_meal_logs, user_id)
        /\ UNCHANGED _profiles
        /\ storage_call("get_total_meals", user_id, Len(meals_of(_meal_logs, user_id)))

\* DashboardData: the profile, the count, the average score (in tenths) and
\* the recent meals; the other fields are further figures read from the
\* same profile and meals
DashboardData(profile, meals) ==
    IF meals = <<>>
    THEN [profile |-> profile, meals_logged |-> 0, average_meal_score |-> 0,
          recent_meals |-> <<>>]
    ELSE [profile |-> profile, meals_logged |-> Len(meals),
          average_meal_score |-> round_half_even(10 * sum_meal_score(meals), Len(meals)),
          recent_meals |-> first_n(newest_first(meals), RECENT_MEALS)]

\* _profiles.get(user_id)
get_profile(profiles, user_id) ==
    IF user_id \in DOMAIN profiles THEN profiles[user_id] ELSE NoneRec

get_dashboard_data ==
    \E user_id \in Users :
        /\ _meal_logs' = getitem(_meal_logs, user_id)
        /\ UNCHANGED _profiles
        /\ storage_call("get_dashboard_data", user_id,
                        DashboardData(get_profile(_profiles, user_id),
                                      meals_of(_meal_logs, user_id)))

\* delete_profile: both dictionaries afterwards and the value returned
delete_profile_of(profiles, logs, user_id) ==
    [profiles |-> delitem(profiles, user_id),
     logs     |-> delitem(logs, user_id),
     deleted  |-> user_id \in DOMAIN profiles \/ user_id \in DOMAIN logs]

delete_profile ==
    \E user_id \in Users :
        \E done \in {delete_profile_of(_profiles, _meal_logs, user_id)} :
            /\ _profiles' = done.profiles
            /\ _meal_logs' = done.logs
            /\ storage_call("delete_profile", user_id, done.deleted)

\* the methods of the storage, called in any order
StorageNext ==
    \/ save_profile
    \/ log_meal
    \/ get_meal_history
    \/ get_meals_today
    \/ get_total_meals
    \/ get_dashboard_data
    \/ delete_profile

StorageSpec == Init /\ [][StorageNext]_vars

\* the Perception call is answered: asyncio.wait_for bounds the Gemini call,
\* and every other path of VisionAnalyst.process returns at once
FairSpec == Spec /\ WF_vars(vision_return(1, VisionOutcomes))

(***************************************************************************)
(* Properties.                                                             *)
(***************************************************************************)
\* the runs that have been called and not yet released
Called == {r \in Runs : pc[r] # "idle"}
\* the runs that have returned a state
Returned == {r \in Runs : pc[r] = "done"}
\* the runs that have a MealState
Started == {r \in Runs : state[r] # NoneRec}

\* how often event e is in run r's history
Count(r, e) == Cardinality({i \in 1..Len(hist[r].log) : hist[r].log[i] = e})

IsPrefix(s, t) == Len(s) <= Len(t) /\ \A i \in 1..Len(s) : s[i] = t[i]

PHASE_ORDER == <<"VisionAnalyst", "BioDataScout", "NutriAuditor", "Orchestrator.act">>

\* the argument is supplied and not empty
Supplied(x) == x \notin {"None", ""}

----------------------------------------------------------------------------
\* C1: every state process() returns, on the normal path, the
\* extraction-failure path and the exception path alike, has overall_score
\* set and within [0,100], a summary and processing_time_ms set; and a call
\* whose input passed the check returns a state, it raises nothing.
C1_ReturnedStateComplete ==
    \A r \in Called :
        /\ pc[r] = "done" =>
              /\ state[r].overall_score # None
              /\ state[r].overall_score >= 0
              /\ state[r].overall_score <= 100
              /\ state[r].summary # NoneRec
              /\ state[r].summary.kind \in {"analysis", "extraction_failure", "analysis_failed"}
              /\ state[r].processing_time_ms # None
              /\ state[r].processing_time_ms >= 0
        /\ pc[r] = "raised" =>
              ~Supplied(inp[r].image_bytes) /\ ~Supplied(inp[r].text_input)

\* a run on the normal path whose score before clamping is above 100
C1_Witness ==
    \E r \in Returned :
        /\ state[r].summary.kind = "analysis"
        /\ raw_meal_score(state[r]) > 100
        /\ state[r].overall_score = 100

----------------------------------------------------------------------------
\* C2 (as amended): process() raises the invalid-input error if and only if
\* neither image_bytes nor text_input is supplied non-empty; a call with
\* both supplied is accepted and goes on to the Perception stage with the
\* image; for a rejected call no stage runs and no MealState is made.
C2_RejectedIffNeitherSupplied ==
    \A r \in Called :
        /\ (pc[r] = "raised" /\ hist[r].escaped = "ValueError")
              <=> (~Supplied(inp[r].image_bytes) /\ ~Supplied(inp[r].text_input))
        /\ pc[r] = "raised" => hist[r].log = <<>> /\ state[r] = NoneRec
        /\ (Supplied(inp[r].image_bytes) /\ Supplied(inp[r].text_input))
              => hist[r].log # <<>> /\ hist[r].log[2] = "VisionAnalyst.execute"

\* a call with both an image and a text, accepted and past the Perception stage
C2_Witness ==
    \E r \in Called :
        /\ Supplied(inp[r].image_bytes) /\ Supplied(inp[r].text_input)
        /\ pc[r] \in {"biodata", "nutri", "done"}
        /\ hist[r].vision # "none"

\* C2 as the claim states it: the call is rejected unless exactly one of
\* the two is supplied non-empty
C2_RejectedUnlessExactlyOne ==
    \A r \in Called :
        pc[r] = "raised"
            <=> ~(Supplied(inp[r].image_bytes) <=> ~Supplied(inp[r].text_input))

----------------------------------------------------------------------------
\* C3: when the extraction-failure gate triggers, the run has returned:
\* the Constraint stage, the Nutrition stage and the Act phase were not
\* invoked, and the returned state has overall_score 0, no total_nutrients,
\* no adjustments, and agent_calls with the Observe entry only.
C3_GateShortCircuits ==
    \A r \in Called :
        hist[r].gate = "failed" =>
            /\ pc[r] = "done"
            /\ Count(r, "think") = 0
            /\ Count(r, "BioDataScout.execute") = 0
            /\ Count(r, "BioDataScout.process") = 0
            /\ Count(r, "NutriAuditor.execute") = 0
            /\ Count(r, "NutriAuditor.process") = 0
            /\ Count(r, "act") = 0
            /\ state[r].overall_score = 0
            /\ state[r].total_nutrients = <<>>
            /\ state[r].adjustments = <<>>
            /\ state[r].agent_calls = <<"VisionAnalyst">>

\* the gate triggered on a Perception answer that carried foods
C3_Witness ==
    \E r \in Returned :
        /\ hist[r].gate = "failed"
        /\ hist[r].observed.foods > 0
        /\ state[r].detected_foods = <<>>

----------------------------------------------------------------------------
\* C4: after Observe the gate triggers if and only if the input is an image
\* and either no food was detected with confidence below 0.15, or the
\* confidence is below 0.10 whatever the number of foods.
C4_GateCondition ==
    \A r \in Called :
        hist[r].observed # NoneRec =>
            /\ hist[r].gate \in {"failed", "passed"}
            /\ hist[r].gate = "failed" <=>
                  /\ Supplied(inp[r].image_bytes)
                  /\ \/ hist[r].observed.foods = 0 /\ hist[r].observed.confidence < 15
                     \/ hist[r].observed.confidence < 10

\* foods at confidence 0.08: the gate triggered
C4_Witness ==
    \E r \in Called :
        /\ hist[r].observed # NoneRec
        /\ hist[r].observed.foods > 0
        /\ hist[r].observed.confidence = 8
        /\ hist[r].gate = "failed"

----------------------------------------------------------------------------
\* C5: the only exception that leaves process() is the ValueError of the
\* input check; a run in which a collaborator or _act raised returns a state.
C5_OnlyValueErrorEscapes ==
    \A r \in Called :
        /\ hist[r].escaped \in {"none", "ValueError"}
        /\ hist[r].escaped = "ValueError" =>
              ~Supplied(inp[r].image_bytes) /\ ~Supplied(inp[r].text_input)
        /\ pc[r] = "raised" => hist[r].escaped = "ValueError"
        /\ hist[r].caught # "none" => pc[r] = "done"

\* _act raised in a run in which a collaborator had raised too, and the run
\* returned
C5_Witness ==
    \E r \in Returned :
        /\ hist[r].caught = "AttributeError"
        /\ hist[r].biodata = "raise"

----------------------------------------------------------------------------
\* C6 (as amended): whenever an exception reaches the except clause of
\* process() (_act raising), the returned state has overall_score 0, the
\* diagnostic summary and processing_time_ms set; and every state returned
\* with a failure summary has overall_score 0.
C6_CaughtExceptionGivesFailureState ==
    \A r \in Called :
        /\ hist[r].caught # "none" =>
              /\ pc[r] = "done"
              /\ state[r].overall_score = 0
              /\ state[r].summary = [kind |-> "analysis_failed", error |-> hist[r].caught]
              /\ state[r].processing_time_ms # None
        /\ (pc[r] = "done" /\ state[r].summary.kind # "analysis") =>
              state[r].overall_score = 0

\* the glycemic swap rule raised in _act
C6_Witness ==
    \E r \in Returned :
        /\ hist[r].caught = "AttributeError"
        /\ hist[r].act_source = "goals"
        /\ state[r].overall_score = 0

\* C6 as the claim states it: whenever any stage raised during the run (a
\* collaborator or the Act logic), the returned state has overall_score 0
\* and a diagnostic summary
C6_AnyStageExceptionGivesFailureState ==
    \A r \in Returned :
        (\/ hist[r].vision = "raise"
         \/ hist[r].biodata = "raise"
         \/ hist[r].nutri = "raise"
         \/ hist[r].caught # "none") =>
            /\ state[r].overall_score = 0
            /\ state[r].summary.kind # "analysis"

----------------------------------------------------------------------------
\* C7: runs in flight together on one instance do not interfere: the
\* profile a run's _think and _act use is the profile the run was called
\* with, and the suggestions its _act takes from _pending_suggestions are
\* those its own audit stored.
C7_RunsDoNotInterfere ==
    \A r \in Called :
        /\ hist[r].think_profile \in {Unused, inp[r].user_profile}
        /\ hist[r].act_profile \in {Unused, inp[r].user_profile}
        /\ hist[r].act_pending_owner \in {0, r}

----------------------------------------------------------------------------
\* C8: a Perception call that times out is answered once and not retried;
\* Observe then has no foods at confidence 0, the gate triggers and the run
\* returns the extraction-failure state without _think or _act; and a run
\* waiting for the Perception stage does not wait for ever.
C8_TimeoutState ==
    \A r \in Called :
        hist[r].vision = "timeout" =>
            /\ Count(r, "VisionAnalyst.execute") = 1
            /\ Count(r, "VisionAnalyst.process") = 1
            /\ hist[r].observed.foods = 0
            /\ hist[r].observed.confidence = 0
            /\ hist[r].gate = "failed"
            /\ pc[r] = "done"
            /\ state[r].overall_score = 0
            /\ state[r].detected_foods = <<>>
            /\ state[r].summary = IMAGE_FAILURE_SUMMARY
            /\ Count(r, "think") = 0
            /\ Count(r, "act") = 0

C8_TimeoutEndsRun ==
    /\ []C8_TimeoutState
    /\ \A r \in {1} : (pc[r] = "vision") ~> (pc[r] \in {"biodata", "done"})

\* a run whose Perception call timed out has returned
C8_Witness ==
    \E r \in Returned :
        /\ hist[r].vision = "timeout"
        /\ hist[r].gate = "failed"

----------------------------------------------------------------------------
\* C9: at every point of a run agent_calls is a prefix of VisionAnalyst,
\* BioDataScout, NutriAuditor, Orchestrator.act; _think starts after the
\* Perception stage has answered and _act after both other stages have; a
\* run that passes the gate and raises nothing returns with the full
\* sequence.
C9_PhaseOrder ==
    \A r \in Started :
        /\ IsPrefix(state[r].agent_calls, PHASE_ORDER)
        /\ \A i, j \in 1..Len(hist[r].log) :
              \/ i >= j
              \/ ~ \/ hist[r].log[i] = "think" /\ hist[r].log[j] \in {"observe", "VisionAnalyst.execute", "VisionAnalyst.process"}
                   \/ hist[r].log[i] = "NutriAuditor.execute" /\ hist[r].log[j] \in {"BioDataScout.execute", "BioDataScout.process", "think"}
                   \/ hist[r].log[i] = "act" /\ hist[r].log[j] # "act" /\ hist[r].log[j] \notin {"except", "return"}
        /\ (pc[r] = "done" /\ hist[r].gate = "passed" /\ hist[r].caught = "none")
              => state[r].agent_calls = PHASE_ORDER

\* a run returned on the normal path
C9_Witness ==
    \E r \in Returned :
        /\ hist[r].gate = "passed"
        /\ hist[r].caught = "none"
        /\ Len(state[r].agent_calls) = 4
        /\ Count(r, "act") = 1

----------------------------------------------------------------------------
\* C10: within one run each collaborator is asked at most once and its
\* process() is entered at most once, also when it fails or times out.
C10_AtMostOneCallPerStage ==
    \A r \in Called :
        \A agent \in {"VisionAnalyst", "BioDataScout", "NutriAuditor"} :
            /\ Count(r, agent \o ".execute") <= 1
            /\ Count(r, agent \o ".process") <= 1

\* all three collaborators raised in one run, which ran to its end
C10_Witness ==
    \E r \in Returned :
        /\ hist[r].vision = "raise"
        /\ hist[r].biodata = "raise"
        /\ hist[r].nutri = "raise"
        /\ Count(r, "VisionAnalyst.process") = 1
        /\ Count(r, "BioDataScout.process") = 1
        /\ Count(r, "NutriAuditor.process") = 1

\* the direct calls of a method that have returned or raised
Answered(fn) == call.fn = fn /\ call.returned

----------------------------------------------------------------------------
\* C11: the rule engine returns at most 3 adjustments, for every profile
\* and every set of nutrient totals, however many goals the profile lists
\* and also when a goal is listed more than once.
C11_RuleEngineCap ==
    (Answered("_generate_goal_suggestions") /\ call.ret.exc = "none")
        => Len(call.ret.value) <= 3

\* one goal listed twice, six rules fired, three adjustments returned
C11_Witness ==
    /\ Answered("_generate_goal_suggestions")
    /\ call.profile.goals = <<"weight_gain", "weight_gain">>
    /\ all_goal_rules(call.profile.goals, call.state).exc = "none"
    /\ Len(all_goal_rules(call.profile.goals, call.state).value) = 6
    /\ call.ret.exc = "none"
    /\ Len(call.ret.value) = 3

----------------------------------------------------------------------------
\* C12: the state a run returns carries at most 3 adjustments, whichever
\* path produced them: the rule engine, the Nutrition stage's suggestions,
\* or the glycemic adjustment _act adds.
C12_AtMostThreeAdjustments ==
    \A r \in Returned : Len(state[r].adjustments) <= 3

\* a returned state carries an adjustment of the glycemic-control goal with
\* this action
has_glycemic_adjustment(st, action) ==
    \E i \in 1..Len(st.adjustments) :
        /\ st.adjustments[i].action = action
        /\ lower_contains(st.adjustments[i].reason, "glycemic control")

\* what the glycemic-control rules owe a meal with these totals
glycemic_rules_met(st, sugar, carbs, fiber) ==
    /\ sugar > 15 => has_glycemic_adjustment(st, "reduce")
    /\ (carbs > 50 /\ fiber < 5) => has_glycemic_adjustment(st, "swap")

----------------------------------------------------------------------------
\* C13: for a profile whose goals contain glycemic-control, a run that
\* passed the gate completes normally (a non-failure summary, Act recorded
\* in agent_calls) and its state carries a reduce adjustment when total
\* sugar > 15 g and a swap adjustment when total carbohydrates > 50 g and
\* fiber < 5 g.
C13_GlycemicRulesComplete ==
    \A r \in Returned :
        (/\ hist[r].gate = "passed"
         /\ truthy(inp[r].user_profile)
         /\ has_glycemic_goal(inp[r].user_profile)) =>
            /\ state[r].summary.kind = "analysis"
            /\ \E i \in 1..Len(state[r].agent_calls) :
                    state[r].agent_calls[i] = "Orchestrator.act"
            /\ glycemic_rules_met(state[r],
                    lowered_get(state[r].total_nutrients, "sugar", 0),
                    lowered_get(state[r].total_nutrients, "carbohydrates", 0),
                    lowered_get(state[r].total_nutrients, "fiber", 0))

\* the adjustments of a returned list with this action and priority whose
\* reason mentions the word
adjustments_about(v, action, priority, word) ==
    {i \in 1..Len(v) : /\ v[i].action = action
                       /\ v[i].priority = priority
                       /\ lower_contains(v[i].reason, word)}

\* the indices of the foods with more than 200 kcal of their own
over_200_kcal(foods) ==
    {i \in 1..Len(foods) :
        \E k \in 1..Len(foods[i].nutrients) :
            foods[i].nutrients[k].name = "calories" /\ foods[i].nutrients[k].amount > 200}

\* the weight-loss rules on a meal with these totals: v is what came back
weight_loss_rules_met(v, foods, calories, protein, fiber) ==
    /\ Cardinality(adjustments_about(v, "reduce", 1, "smaller portions"))
            = IF calories > 600 THEN 1 ELSE 0
    /\ Cardinality(adjustments_about(v, "add", 2, "protein"))
            = IF protein < 25 THEN 1 ELSE 0
    /\ Cardinality(adjustments_about(v, "add", 3, "fiber"))
            = IF fiber < 5 THEN 1 ELSE 0
    /\ Len(v) = (IF calories > 600 THEN 1 ELSE 0) + (IF protein < 25 THEN 1 ELSE 0)
                    + (IF fiber < 5 THEN 1 ELSE 0)
    /\ \A i, j \in 1..Len(v) : i < j => v[i].priority < v[j].priority
    /\ \A i \in 1..Len(v) :
            v[i].food_name = IF v[i].action = "reduce" /\ over_200_kcal(foods) # {}
                             THEN foods[Min(over_200_kcal(foods))].name
                             ELSE "meal"

----------------------------------------------------------------------------
\* C14: for goals [WEIGHT_LOSS] the rule engine returns a REDUCE adjustment
\* (priority 1) exactly when total calories > 600, an ADD-protein adjustment
\* (priority 2) exactly when protein < 25 and an ADD-fiber adjustment
\* (priority 3) exactly when fiber < 5, and nothing else, in that order; the
\* REDUCE names the first detected food with more than 200 kcal of its own,
\* or 'meal' when there is none.
C14_WeightLossRules ==
    (Answered("_generate_goal_suggestions") /\ call.profile.goals = <<"weight_loss">>) =>
        /\ call.ret.exc = "none"
        /\ weight_loss_rules_met(call.ret.value, call.state.detected_foods,
                nutrients_get(call.state.total_nutrients, "calories", 0),
                nutrients_get(call.state.total_nutrients, "protein", 0),
                nutrients_get(call.state.total_nutrients, "fiber", 0))

\* totals calories 700, protein 20, fiber 3, the second food the first with
\* more than 200 kcal: all three adjustments, the REDUCE first and naming it
C14_Witness ==
    /\ Answered("_generate_goal_suggestions")
    /\ call.profile.goals = <<"weight_loss">>
    /\ call.state.total_nutrients =
            << NutrientInfo("calories", 700), NutrientInfo("protein", 20),
               NutrientInfo("fiber", 3) >>
    /\ Len(call.state.detected_foods) = 3
    /\ Len(call.ret.value) = 3
    /\ call.ret.value[1].action = "reduce"
    /\ call.ret.value[1].food_name = "white rice"
    /\ call.ret.value[2].priority = 2
    /\ call.ret.value[3].priority = 3

\* the text indices of the first occurrence of a phrase
span_of(text_lower, name) ==
    find(text_lower, Chars[name])..(find(text_lower, Chars[name]) + Len(Chars[name]) - 1)

\* the phrases of the vocabulary that occur in the text
candidates(text_lower) ==
    {common_foods[i].name : i \in {k \in 1..Len(common_foods) :
                                      find(text_lower, Chars[common_foods[k].name]) # -1}}

\* what the parser owes a text in which some phrase occurs: foods is what
\* came back
matches_met(text_lower, foods, found) ==
    /\ Len(foods) <= 6
    /\ Len(foods) >= 1
    /\ \A i \in 1..Len(foods) : foods[i].name \in found
    /\ \A i, j \in 1..Len(foods) :
            i < j => /\ Len(Chars[foods[i].name]) >= Len(Chars[foods[j].name])
                     /\ span_of(text_lower, foods[i].name)
                            \cap span_of(text_lower, foods[j].name) = {}
    /\ \A name \in found :
            \/ \E i \in 1..Len(foods) : foods[i].name = name
            \/ \E i \in 1..Len(foods) :
                    /\ Len(Chars[foods[i].name]) >= Len(Chars[name])
                    /\ span_of(text_lower, foods[i].name) \cap span_of(text_lower, name) # {}
            \/ Len(foods) = 6

----------------------------------------------------------------------------
\* C15: text parsing takes the vocabulary longest phrase first and accepts
\* a phrase only when its span overlaps no span already taken: the items
\* come in the order of phrase length, no character of the text belongs to
\* two items, a phrase that occurs and is not an item overlaps an item at
\* least as long (or the cap was reached), at most 6 items are produced,
\* and the result is a function of the text; for "grilled chicken breast
\* with rice and broccoli" the items are grilled chicken breast, rice and
\* broccoli, three in all, with no separate chicken item.
C15_TextParsing ==
    Answered("_parse_text_input") =>
        /\ call.ret = _parse_text_input(MealState(USER_ID), call.text)
        /\ candidates(lower(Chars[call.text])) # {} =>
                matches_met(lower(Chars[call.text]), call.ret.detected_foods,
                            candidates(lower(Chars[call.text])))
        /\ call.text = "grilled chicken breast with rice and broccoli" =>
                /\ Len(call.ret.detected_foods) = 3
                /\ {call.ret.detected_foods[i].name : i \in 1..3}
                        = {"grilled chicken breast", "rice", "broccoli"}

\* the text of the example was parsed: chicken occurs in it, inside the
\* longer phrase that was taken first, and is no item
C15_Witness ==
    /\ Answered("_parse_text_input")
    /\ call.text = "grilled chicken breast with rice and broccoli"
    /\ "chicken" \in candidates(lower(Chars[call.text]))
    /\ Len(call.ret.detected_foods) = 3
    /\ call.ret.detected_foods[1].name = "grilled chicken breast"

\* the state with another total of protein, every other field as it is
with_protein(st, p) ==
    [st EXCEPT !.total_nutrients =
        [i \in 1..Len(st.total_nutrients) |->
            IF st.total_nutrients[i].name = "protein"
            THEN NutrientInfo("protein", p) ELSE st.total_nutrients[i]]]

----------------------------------------------------------------------------
\* C16: every other field of the state being equal, the meal score does
\* not decrease when total protein is raised, and does not increase when
\* it is lowered.
C16_ScoreMonotoneInProtein ==
    Answered("_calculate_meal_score") =>
        \A p \in ProteinValues :
            LET other == _calculate_meal_score(with_protein(call.state, p))
                here  == nutrients_get(call.state.total_nutrients, "protein", 0)
            IN  /\ p >= here => other >= call.ret
                /\ p <= here => other <= call.ret

\* a state with 15 g protein was scored below the clamp, and the same
\* state with 25 g scores more
C16_Witness ==
    /\ Answered("_calculate_meal_score")
    /\ nutrients_get(call.state.total_nutrients, "protein", 0) = 15
    /\ call.ret = 75
    /\ _calculate_meal_score(with_protein(call.state, 25)) = 80

\* the profile has no goals, or there is no profile
without_goals(profile) == ~truthy(profile) \/ profile.goals = <<>>

----------------------------------------------------------------------------
\* C17 (as amended): for a profile with no goals, or no profile, the Goal
\* Alignment Scorer returns alignment score exactly 50.0, no goal scores,
\* no recommendations, and a feedback list of exactly one item, the hint to
\* set up health goals; whatever the meal and the profile's conditions.
C17_NoGoalsAnswer ==
    (Answered("GoalEvaluator.process") /\ without_goals(call.profile)) =>
        /\ call.ret.alignment_score = 500
        /\ DOMAIN call.ret.goal_scores = {}
        /\ call.ret.recommendations = <<>>
        /\ call.ret.feedback = << [kind |-> "setup_hint"] >>

\* a profile with conditions and no goals, a meal over the conditions'
\* limits: the answer is the neutral one
C17_Witness ==
    /\ Answered("GoalEvaluator.process")
    /\ truthy(call.profile)
    /\ call.profile.goals = <<>>
    /\ call.profile.conditions = <<"type_2_diabetes", "celiac_disease">>
    /\ _check_conditions(call.profile.conditions, call.state) # <<>>
    /\ call.ret.alignment_score = 500
    /\ Len(call.ret.feedback) = 1

\* C17 as the claim states it: alignment score 50.0 with an empty feedback
\* list and an empty recommendations list
C17_NoGoalsEmptyFeedback ==
    (Answered("GoalEvaluator.process") /\ without_goals(call.profile)) =>
        /\ call.ret.alignment_score = 500
        /\ call.ret.feedback = <<>>
        /\ call.ret.recommendations = <<>>

----------------------------------------------------------------------------
\* C18: when the extraction-failure gate triggers, every Observe, Think and
\* Act output field of the returned state is at its empty or default value
\* (detected_foods, raw_ocr_text, image_analysis_confidence,
\* health_constraints, total_nutrients, constraint_violations,
\* adjustments); only overall_score = 0 and the summary are set.
C18_GateResetsEveryOutput ==
    \A r \in Returned :
        hist[r].gate = "failed" =>
            /\ state[r].detected_foods = MealState(USER_ID).detected_foods
            /\ state[r].raw_ocr_text = MealState(USER_ID).raw_ocr_text
            /\ state[r].image_analysis_confidence = MealState(USER_ID).image_analysis_confidence
            /\ state[r].health_constraints = MealState(USER_ID).health_constraints
            /\ state[r].total_nutrients = MealState(USER_ID).total_nutrients
            /\ state[r].constraint_violations = MealState(USER_ID).constraint_violations
            /\ state[r].adjustments = MealState(USER_ID).adjustments
            /\ state[r].overall_score = 0
            /\ state[r].summary \in {IMAGE_FAILURE_SUMMARY, TEXT_FAILURE_SUMMARY}

\* the names of a list of foods
names_of(foods) == [i \in 1..Len(foods) |-> foods[i].name]

----------------------------------------------------------------------------
\* C19: if the Perception stage reports failure for an image, Observe
\* installs the three mock foods with confidence 0.87: the gate does not
\* trigger, and Think and Act run on the mock foods.
C19_PerceptionFailureFallsBackToMock ==
    \A r \in Called :
        hist[r].vision = "raise" =>
            /\ given(inp[r].image_bytes)
            /\ hist[r].observed.foods = 3
            /\ hist[r].observed.confidence = 87
            /\ hist[r].gate = "passed"
            /\ names_of(state[r].detected_foods)
                    = <<"grilled chicken breast", "brown rice", "steamed broccoli">>
            /\ state[r].image_analysis_confidence = 87
            /\ Count(r, "think") = 1
            /\ pc[r] \in {"biodata", "nutri", "done"}
            /\ pc[r] = "done" => Count(r, "act") = 1

\* a run whose Perception stage failed has gone through Think and Act and
\* returned an analysis of the mock foods
C19_Witness ==
    \E r \in Returned :
        /\ hist[r].vision = "raise"
        /\ Count(r, "act") = 1
        /\ state[r].summary.kind = "analysis"
        /\ state[r].total_nutrients # <<>>
        /\ Len(state[r].detected_foods) = 3

\* the Observe and Think output fields of MealState
OBSERVE_THINK_FIELDS ==
    {"detected_foods", "raw_ocr_text", "image_analysis_confidence", "health_constraints",
     "total_nutrients", "constraint_violations"}

\* the field has a value other than its default
populated(st, field) == st[field] # MealState(USER_ID)[field]

\* a run whose overall_score is set has returned; its history ends there;
\* and on the exception path the Observe and Think outputs are still there
C20_ScoredIsReturned ==
    \A r \in Started :
        /\ state[r].overall_score # None =>
              /\ pc[r] = "done"
              /\ hist[r].log[Len(hist[r].log)] = "return"
        /\ hist[r].caught # "none" =>
              /\ populated(state[r], "detected_foods")
              /\ populated(state[r], "image_analysis_confidence")
              /\ hist[r].nutri \in NutritionSources => populated(state[r], "total_nutrients")
              /\ state[r].total_nutrients = _calculate_totals(state[r].detected_foods)

\* a step of a run that goes on: nothing changes once overall_score is set,
\* and a populated Observe or Think field stays populated, unless the step
\* is the extraction-failure handler's
C20_NothingCleared ==
    \A r \in Runs :
        (state[r] # NoneRec /\ pc'[r] # "idle") =>
            /\ state[r].overall_score # None =>
                  /\ state'[r] = state[r]
                  /\ hist'[r] = hist[r]
            /\ hist'[r].gate # "failed" =>
                  \A field \in OBSERVE_THINK_FIELDS :
                      populated(state[r], field) => populated(state'[r], field)

----------------------------------------------------------------------------
\* C20: once overall_score is set the run is over: no stage is invoked
\* afterwards and the state no longer changes; and no Observe or Think
\* output field that was populated is cleared later in the run, except by
\* the extraction-failure handler; the exception path keeps them.
C20_TerminalOnceScored ==
    /\ []C20_ScoredIsReturned
    /\ [][C20_NothingCleared]_vars

\* _act raised after Observe and Think had populated the state, and the
\* returned state still has the foods, the constraints and the totals
C20_Witness ==
    \E r \in Returned :
        /\ hist[r].caught # "none"
        /\ state[r].overall_score = 0
        /\ populated(state[r], "detected_foods")
        /\ populated(state[r], "health_constraints")
        /\ populated(state[r], "total_nutrients")
        /\ populated(state[r], "constraint_violations")

----------------------------------------------------------------------------
\* the returned runs whose Think stored the Nutrition stage's report
Audited == {r \in Returned : hist[r].nutri \in NutritionSources}

\* the report the Nutrition stage gave run r
audit_of(r) ==
    NutriAuditor_process(state[r].detected_foods, state[r].health_constraints, hist[r].nutri)

\* the warnings as they are displayed
prefixed(warnings) == [i \in 1..Len(warnings) |-> [warnings[i] EXCEPT !.marker = TRUE]]

no_duplicates(seq) == \A i, j \in 1..Len(seq) : i # j => seq[i] # seq[j]

merged_without_duplicates(constraint_violations, report) ==
    no_duplicates(report.violations) =>
        /\ constraint_violations = report.violations \o prefixed(report.warnings)
        /\ no_duplicates(constraint_violations)

\* C21: after Think, constraint_violations is the Nutrition stage's
\* violations followed by its warnings with the display prefix, and no entry
\* occurs in it twice, also when the stage returns one warning twice (stated
\* for reports whose violations are distinct, so that a repetition can only
\* come from the warnings).
C21_WarningsMergedWithoutDuplicates ==
    \A r \in Audited :
        merged_without_duplicates(state[r].constraint_violations, audit_of(r))

----------------------------------------------------------------------------
\* the runs whose Constraint stage has answered with a report
Constrained == {r \in Started : hist[r].biodata = "report"}

\* the profile has the glycemic-control goal or a diabetes condition
glycemically_relevant(p) ==
    \/ \E i \in 1..Len(p.goals) : p.goals[i] = "glycemic_control"
    \/ \E i \in 1..Len(p.conditions) : p.conditions[i] \in {"type_1_diabetes", "type_2_diabetes"}

about_glucose(constraints) ==
    {i \in 1..Len(constraints) : constraints[i].constraint_type = "blood_glucose"}

without_glucose(constraints) ==
    SelectSeq(constraints, LAMBDA c : c.constraint_type # "blood_glucose")

filtered_for(p, reported, health_constraints, user_constraints) ==
    /\ user_constraints = health_constraints
    /\ IF p # NoneRec /\ ~glycemically_relevant(p)
       THEN /\ about_glucose(health_constraints) = {}
            /\ health_constraints = without_glucose(reported)
       ELSE health_constraints = reported

\* C22: once the Constraint stage has answered, a run whose profile is
\* present and has neither the glycemic-control goal nor a type-1 or type-2
\* diabetes condition holds the reported constraints without the
\* blood-glucose ones, and those are what the Nutrition stage is asked about;
\* a run with no profile, or with a glycemically relevant one, holds the
\* reported constraints as they came.
C22_GlucoseConstraintsFiltered ==
    \A r \in Constrained :
        filtered_for(inp[r].user_profile, hist[r].reported.constraints,
                     state[r].health_constraints, hist[r].audit_request.user_constraints)

\* a returned run of a user with hypertension only, whose Constraint stage
\* reported a blood-glucose constraint that the state does not hold
C22_Witness ==
    \E r \in Constrained \cap Returned :
        /\ inp[r].user_profile = UserProfile(<<>>, <<"hypertension">>)
        /\ about_glucose(hist[r].reported.constraints) # {}
        /\ about_glucose(state[r].health_constraints) = {}
        /\ Len(state[r].health_constraints) = Len(hist[r].reported.constraints) - 1

\* a returned run of a user with type-1 diabetes that holds the reported
\* blood-glucose constraint
C22_WitnessKept ==
    \E r \in Constrained \cap Returned :
        /\ inp[r].user_profile = UserProfile(<<>>, <<"type_1_diabetes">>)
        /\ about_glucose(state[r].health_constraints) # {}

----------------------------------------------------------------------------
\* the returned runs whose Act ran to its end
Acted == {r \in Returned : Count(r, "act") = 1 /\ hist[r].caught = "none"}

\* the suggestions the Nutrition stage returned in run r's Think
suggested_in(r) ==
    IF hist[r].nutri \in NutritionSources THEN audit_of(r).suggestions ELSE <<>>

GLYCEMIC_REASON == "Consider reducing portion to manage blood glucose"

\* the list is the rule engine's output, or that output and one glycemic
\* adjustment after it
engine_output_plus(adjustments, engine) ==
    \/ adjustments = engine
    \/ /\ Len(adjustments) = Len(engine) + 1
       /\ SubSeq(adjustments, 1, Len(engine)) = engine
       /\ adjustments[Len(adjustments)].reason = GLYCEMIC_REASON

elements(seq) == {seq[i] : i \in 1..Len(seq)}

adjustments_chosen(p, adjustments, engine, suggested) ==
    IF p # NoneRec /\ p.goals # <<>>
    THEN /\ engine_output_plus(adjustments, engine.value)
         /\ elements(adjustments) \cap elements(suggested) = {}
    ELSE adjustments = suggested

\* C23: when Act has run, the adjustments of a run whose profile has a goal
\* are the rule engine's output, with at most the one glycemic adjustment
\* after it, and none of them is a suggestion of the Nutrition stage; the
\* adjustments of a run with no profile or no goals are the suggestions the
\* Nutrition stage returned in this run's Think.
C23_AdjustmentsSource ==
    \A r \in Acted :
        adjustments_chosen(inp[r].user_profile, state[r].adjustments,
                           _generate_goal_suggestions(state[r], inp[r].user_profile),
                           suggested_in(r))

\* a run with a goal whose Nutrition stage made suggestions and whose
\* adjustments are the rule engine's, none of the stage's among them
C23_Witness ==
    \E r \in Acted :
        /\ inp[r].user_profile # NoneRec
        /\ inp[r].user_profile.goals # <<>>
        /\ suggested_in(r) # <<>>
        /\ state[r].adjustments # <<>>
        /\ state[r].adjustments = _generate_goal_suggestions(state[r], inp[r].user_profile).value

----------------------------------------------------------------------------
\* _act was called directly and returned a state
ActReturned == Answered("_act") /\ call.ret.exc = "none"

\* the adjustments before the loop over the violations of the direct call
base_adjustments ==
    IF call.profile # NoneRec /\ call.profile.goals # <<>>
    THEN _generate_goal_suggestions(call.state, call.profile).value
    ELSE IF call.pending.has /\ call.pending.value # <<>>
    THEN call.pending.value
    ELSE call.state.adjustments

mentions_carbohydrates(violations) ==
    \E i \in 1..Len(violations) : lower_contains(violations[i].text, "carbohydrate")

carb_related(adjustments) ==
    \E i \in 1..Len(adjustments) :
        lower_contains(adjustments[i].reason, "carb") \/ lower_contains(adjustments[i].reason, "glucose")

over_20_carbs(foods) ==
    {i \in 1..Len(foods) : first_amount(foods[i].nutrients, "carbohydrates") > 20}

\* the three conditions under which a glycemic adjustment is due
glycemic_due(profile, violations, base) ==
    /\ mentions_carbohydrates(violations)
    /\ profile # NoneRec
    /\ glycemically_relevant(profile)
    /\ ~carb_related(base)

glycemic_adjustment_for(food) ==
    MealAdjustment(food.name, "reduce", GLYCEMIC_REASON,
                   IF lower_contains(food.name, "rice") THEN "cauliflower rice" ELSE "None", 1)

glycemic_appended(adjustments, base, foods, over, due) ==
    IF due /\ over # {}
    THEN adjustments = Append(base, glycemic_adjustment_for(foods[Min(over)]))
    ELSE adjustments = base

\* C24 (as amended): Act appends one REDUCE adjustment of priority 1 for the
\* first detected food with more than 20 g carbohydrate, with the alternative
\* cauliflower rice iff the food's name contains rice, exactly when some
\* violation mentions carbohydrates, the profile has the glycemic-control
\* goal or a diabetes condition, no adjustment already present has a carb or
\* glucose reason, and some detected food has more than 20 g carbohydrate;
\* otherwise it appends nothing, and it never appends more than one.
C24_GlycemicAdjustment ==
    ActReturned =>
        glycemic_appended(call.ret.state.adjustments, base_adjustments, call.state.detected_foods,
                          over_20_carbs(call.state.detected_foods),
                          glycemic_due(call.profile, call.state.constraint_violations,
                                       base_adjustments))

\* two violations mention carbohydrates, the user has type-2 diabetes and
\* the weight-gain goal, whose rules gave one adjustment about protein; the
\* second food is the first above 20 g and is a rice: the one adjustment
\* more, with cauliflower rice
C24_Witness ==
    /\ ActReturned
    /\ call.profile = UserProfile(<<"weight_gain">>, <<"type_2_diabetes">>)
    /\ Len(call.state.constraint_violations) = 2
    /\ \A i \in 1..2 : lower_contains(call.state.constraint_violations[i].text, "carbohydrate")
    /\ Len(base_adjustments) = 1
    /\ first_amount(call.state.detected_foods[1].nutrients, "carbohydrates") <= 20
    /\ call.ret.state.adjustments =
            Append(base_adjustments,
                   MealAdjustment("white rice", "reduce", GLYCEMIC_REASON, "cauliflower rice", 1))

\* C24 as stated: the adjustment is appended exactly when the three
\* conditions hold, whatever the foods.
C24_AppendedExactlyWhenDue ==
    ActReturned =>
        (glycemic_due(call.profile, call.state.constraint_violations, base_adjustments)
            <=> Len(call.ret.state.adjustments) = Len(base_adjustments) + 1)

----------------------------------------------------------------------------
\* the names of the detected foods, each counted once
distinct_foods(st) == {st.detected_foods[i].name : i \in 1..Len(st.detected_foods)}

\* the violation strings without the soft-warning marker
serious(st) ==
    {i \in 1..Len(st.constraint_violations) : ~st.constraint_violations[i].marker}

tier3(x, top, mid, low) == IF x >= top THEN 15 ELSE IF x >= mid THEN 10 ELSE IF x >= low THEN 5 ELSE 0
bonus2(x, top, low) == IF x >= top THEN 10 ELSE IF x >= low THEN 5 ELSE 0
penalty2(x, top, low) == IF x > top THEN 10 ELSE IF x > low THEN 5 ELSE 0

\* the score as the scoring algorithm is specified, with the variety bonus
\* on the number of distinct foods
specified_score(st) ==
    clamp(70 + tier3(nutrients_get(st.total_nutrients, "protein", 0), 30, 20, 10)
             + bonus2(nutrients_get(st.total_nutrients, "fiber", 0), 8, 5)
             - penalty2(nutrients_get(st.total_nutrients, "sodium", 0), 1000, 800)
             - 10 * Cardinality(serious(st))
             + bonus2(Cardinality(distinct_foods(st)), 4, 3))

\* C25: the meal score is 70, plus the protein bonus 15/10/5 for >= 30/20/10
\* g, plus the fiber bonus 10/5 for >= 8/5 g, minus the sodium penalty 10/5
\* for > 1000/800 mg, minus 10 for each violation without the soft-warning
\* marker, plus the variety bonus 10/5 for >= 4/3 distinct detected foods,
\* clamped to [0,100]; the state it is computed from is left as it was.
C25_ScoreAsSpecified ==
    Answered("_calculate_meal_score") => call.ret = specified_score(call.state)

----------------------------------------------------------------------------
\* the rule engine was called directly and returned a list
RulesReturned == Answered("_generate_goal_suggestions") /\ call.ret.exc = "none"

\* what the rules of the profile's goals generated, in the order of the
\* goals and of each goal's rules
generated_adjustments == all_goal_rules(call.profile.goals, call.state).value

of_priority(adjustments, p) == SelectSeq(adjustments, LAMBDA a : a.priority = p)

ascending(adjustments) ==
    \A i, j \in 1..Len(adjustments) : i < j => adjustments[i].priority <= adjustments[j].priority

\* of every priority the first generated are returned, in their order; a
\* priority that is returned in part has none of a higher number returned
sorted_prefix(returned, generated) ==
    /\ ascending(returned)
    /\ Len(returned) = IF Len(generated) > 3 THEN 3 ELSE Len(generated)
    /\ \A p \in Priorities :
        /\ IsPrefix(of_priority(returned, p), of_priority(generated, p))
        /\ of_priority(returned, p) # of_priority(generated, p) =>
                \A q \in Priorities : q > p => of_priority(returned, q) = <<>>

\* C26: the list the rule engine returns is in ascending order of priority,
\* adjustments of equal priority are in the order in which the goals and
\* their rules generated them, and every generated adjustment that is not
\* returned has a priority number no smaller than any returned one.
C26_SortedStableTruncated ==
    RulesReturned => sorted_prefix(call.ret.value, generated_adjustments)

\* more than three adjustments were generated, the first generated is not
\* the first returned, and two different ones of equal priority are
\* returned in the order of their generation
C26_Witness ==
    /\ RulesReturned
    /\ Len(generated_adjustments) > 3
    /\ generated_adjustments[1].priority > call.ret.value[1].priority
    /\ \E p \in Priorities :
        /\ Len(of_priority(call.ret.value, p)) = 2
        /\ of_priority(call.ret.value, p)[1] # of_priority(call.ret.value, p)[2]
        /\ of_priority(call.ret.value, p) = SubSeq(of_priority(generated_adjustments, p), 1, 2)

----------------------------------------------------------------------------
\* the phrase stands in the text at index k (counted from 0)
occurs_at(text_lower, phrase, k) ==
    /\ k + Len(phrase) <= Len(text_lower)
    /\ \A i \in 1..Len(phrase) : text_lower[k + i] = phrase[i]

\* the text indices consumed by the accepted matches
consumed(text_lower, foods) ==
    UNION {span_of(text_lower, foods[i].name) : i \in 1..Len(foods)}

\* the phrase occurs somewhere in the text outside the indices used
occurs_outside(text_lower, phrase, used) ==
    \E k \in 0..Len(text_lower) :
        /\ occurs_at(text_lower, phrase, k)
        /\ k..(k + Len(phrase) - 1) \cap used = {}

free_phrases_reported(text_lower, foods, used) ==
    \A name \in candidates(text_lower) :
        occurs_outside(text_lower, Chars[name], used) =>
            \/ \E i \in 1..Len(foods) : foods[i].name = name
            \/ Len(foods) = 6

\* C27: in text parsing only the text consumed by an accepted match is
\* excluded from further matching: a vocabulary phrase that occurs in the
\* text outside every consumed span is reported as a food item (unless the
\* cap of 6 was reached), also when an earlier occurrence of the phrase lies
\* inside a longer accepted match.
C27_FreeOccurrencesReported ==
    Answered("_parse_text_input") =>
        free_phrases_reported(lower(Chars[call.text]), call.ret.detected_foods,
                              consumed(lower(Chars[call.text]), call.ret.detected_foods))

----------------------------------------------------------------------------
\* the Goal Alignment Scorer was called directly for a profile with goals
Evaluated ==
    /\ Answered("GoalEvaluator.process")
    /\ call.profile # NoneRec
    /\ call.profile.goals # <<>>

\* all feedback generated for the goals and then the conditions, and all
\* recommendations generated for the goals, of the direct call
all_feedback ==
    all_goals(call.profile.goals, call.state, "feedback")
    \o _check_conditions(call.profile.conditions, call.state)

all_recommendations == all_goals(call.profile.goals, call.state, "recommendations")

\* kept is a part of generated that holds no item shorter than one left out
longest_kept(kept, generated, cap) ==
    /\ Len(kept) <= cap
    /\ \E at \in SUBSET (1..Len(generated)) :
        /\ Cardinality(at) = Len(kept)
        /\ \A i \in at : \E k \in 1..Len(kept) : kept[k] = generated[i]
        /\ \A i \in at, j \in (1..Len(generated)) \ at :
                text_length(generated[i]) >= text_length(generated[j])

\* C28: the Goal Alignment Scorer's result has at most 5 feedback items and
\* at most 3 recommendations, and the items kept are the longest among all
\* the feedback, and all the recommendations, generated for the profile's
\* goals and conditions.
C28_LongestFeedbackKept ==
    Evaluated =>
        /\ longest_kept(call.ret.feedback, all_feedback, 5)
        /\ longest_kept(call.ret.recommendations, all_recommendations, 3)

----------------------------------------------------------------------------
\* run r's Act took the instance's _pending_suggestions, and the run that
\* had stored them had ended before (an owner of 0 with suggestions present
\* is a run that was released)
took_earlier_suggestions(r) ==
    /\ hist[r].act_source = "pending"
    /\ hist[r].act_pending_owner # r

\* C29: in runs made one after another on one orchestrator, the adjustments
\* a run returns hold no suggestion the Nutrition stage produced in an
\* earlier run: what Act takes from _pending_suggestions was stored by this
\* run's own Think, and a run without goals whose Nutrition stage failed
\* returns no adjustments.
C29_NoSuggestionsOfEarlierRuns ==
    \A r \in Returned :
        /\ ~took_earlier_suggestions(r)
        /\ (hist[r].nutri = "raise" /\ hist[r].act_source # "goals") =>
                state[r].adjustments = <<>>

----------------------------------------------------------------------------
\* delete_profile(user) has just returned
Deleted == Answered("delete_profile")

\* C30: after any sequence of storage operations, delete_profile(user)
\* leaves the user with no profile and no logged meals, and it returns True
\* only if a profile or at least one logged meal existed for the user
\* before the call: for a user who had neither it returns False.
C30_DeleteReportsWhatExisted ==
    Deleted =>
        /\ call.user_id \notin DOMAIN _profiles
        /\ meals_of(_meal_logs, call.user_id) = <<>>
        /\ call.ret = TRUE => (call.before.profile \/ call.before.meals > 0)
        /\ (~call.before.profile /\ call.before.meals = 0) => call.ret = FALSE

=============================================================================
